---- MODULE Spec2Model ----
(***************************************************************************)
(* Model of the sensor telemetry pipeline of py2025-project-v1:            *)
(*   - SensorServer / SensorDataBuffer / SensorServerGUI   (src/GUI.py)    *)
(*   - Logger and the start-up script                      (src/main.py)   *)
(* The GUI table and its notification queue (presentation layer) are not   *)
(* part of the model.                                                      *)
(***************************************************************************)
EXTENDS Integers, Sequences, FiniteSets, TLC

(***************************************************************************)
(* Bounds of the model.                                                    *)
(***************************************************************************)
ReadingsPerConn == 3         \* K: well-formed readings each connection sends
MaxFrames == 2               \* frames of the arbitrary-content stream
max_history_length == 2      \* SensorDataBuffer.max_history_length (100 in the source)
RecvMax == 4                 \* bytes one recv returns at most (1024 in the source)

Conns == {1, 2}               \* the connections: two peers, two handler threads

(***************************************************************************)
(* Python values that travel in a message.  Every field is a record of one *)
(* shape, so that any two values can be compared.                          *)
(***************************************************************************)
PyNone == "None"                                  \* None / key absent (dict.get)
VNone == [kind |-> "none", n |-> 0]
VNum(n) == [kind |-> "num", n |-> n]              \* JSON number
VNumStr(n) == [kind |-> "numstr", n |-> n]        \* JSON string holding a number, "3"
VStr == [kind |-> "str", n |-> 0]                 \* JSON string that is no number, "abc"
TNone == [kind |-> "none", t |-> 0]
TIso(t) == [kind |-> "iso", t |-> t]              \* ISO-8601 text of instant t
TBad == [kind |-> "bad", t |-> 0]                 \* text datetime.fromisoformat rejects

Msg(sensor, sensor_id, value, timestamp, unit) ==
    [sensor |-> sensor, sensor_id |-> sensor_id, value |-> value,
     timestamp |-> timestamp, unit |-> unit]
EmptyDict == Msg(PyNone, PyNone, VNone, TNone, PyNone)

(***************************************************************************)
(* Bytes on the wire.  "{" and "}" open and close a JSON object whose      *)
(* members are carried by one "body" unit; "7" is a digit, "x" a letter,   *)
(* "hi" "lo" the two bytes of one two-byte UTF-8 character.                *)
(***************************************************************************)
B(b) == [b |-> b, m |-> <<>>]
Body(m) == [b |-> "body", m |-> m]
NL == B("nl")

\* NetworkClient._serialize followed by the delimiter of NetworkClient.send
Serialize(m) == <<B("{"), Body(m), B("}")>>
Frame(m) == Serialize(m) \o <<NL>>

Min(a, b) == IF a < b THEN a ELSE b
Max(a, b) == IF a > b THEN a ELSE b

\* bytes.decode("utf-8"): fails on a chunk that cuts a multi-byte character
WellFormedUtf8(bs) ==
    \A i \in 1..Len(bs) :
        /\ bs[i].b = "hi" => (i < Len(bs) /\ bs[i + 1].b = "lo")
        /\ bs[i].b = "lo" => (i > 1 /\ bs[i - 1].b = "hi")
RECURSIVE Decode(_)
Decode(bs) ==
    IF bs = <<>> THEN <<>>
    ELSE IF bs[1].b = "hi" THEN <<B("deg")>> \o Decode(SubSeq(bs, 3, Len(bs)))
    ELSE <<bs[1]>> \o Decode(Tail(bs))

\* "\n" in buffer
HasNL(s) == \E i \in 1..Len(s) : s[i] = NL
FirstNL(s) == CHOOSE i \in 1..Len(s) : s[i] = NL /\ \A j \in 1..(i - 1) : s[j] # NL
\* line, buffer = buffer.split("\n", 1)
SplitLine(s) == SubSeq(s, 1, FirstNL(s) - 1)
SplitRest(s) == SubSeq(s, FirstNL(s) + 1, Len(s))

\* json.loads(line): "dict", "scalar" (valid JSON that is no object) or "error"
json_loads(line) ==
    IF Len(line) = 3 /\ line[1].b = "{" /\ line[2].b = "body" /\ line[3].b = "}"
        THEN [kind |-> "dict", m |-> line[2].m]
    ELSE IF Len(line) = 2 /\ line[1].b = "{" /\ line[2].b = "}"
        THEN [kind |-> "dict", m |-> EmptyDict]
    ELSE IF Len(line) > 0 /\ \A i \in 1..Len(line) : line[i].b = "7"
        THEN [kind |-> "scalar", m |-> EmptyDict]
    ELSE [kind |-> "error", m |-> EmptyDict]

(***************************************************************************)
(* SensorDataBuffer (src/GUI.py)                                           *)
(***************************************************************************)
\* Python truth value of a string-or-None
Truthy(s) == s # PyNone /\ s # ""
\* msg.get("sensor") or msg.get("sensor_id")
SensorIdOf(m) == IF Truthy(m.sensor) THEN m.sensor ELSE m.sensor_id
\* float(msg.get("value")) returns (does not raise ValueError / TypeError)
FloatOk(v) == v.kind \in {"num", "numstr"}
\* datetime.fromisoformat(timestamp_str) if timestamp_str else datetime.now()
TimestampOk(t) == t.kind # "bad"
TimestampOf(t, now) == IF t.kind = "iso" THEN t.t ELSE now
\* add_reading reaches its critical section (no exception before the lock)
Converts(m) == FloatOk(m.value) /\ TimestampOk(m.timestamp)
Entry(m, now) ==
    [ts |-> TimestampOf(m.timestamp, now), value |-> m.value.n, unit |-> m.unit]

\* a history that is replaced where it should grow
AppendOverwrites(d, sid, e) ==
    IF sid \in DOMAIN d THEN [d EXCEPT ![sid] = <<e>>] ELSE d @@ (sid :> <<e>>)
\* a history that grows at its head
AppendInFront(d, sid, e) ==
    IF sid \in DOMAIN d THEN [d EXCEPT ![sid] = <<e>> \o @] ELSE d @@ (sid :> <<e>>)
\* if sensor_id not in self.data: self.data[sensor_id] = []; ...append(...)
AppendReading(d, sid, e) ==
    IF sid \in DOMAIN d THEN [d EXCEPT ![sid] = Append(@, e)] ELSE d @@ (sid :> <<e>>)
\* if len(h) > max_history_length: h = h[-max_history_length:]
\* a trim that keeps the head of the history
TrimKeepsOldest(h) ==
    IF Len(h) > max_history_length THEN SubSeq(h, 1, max_history_length) ELSE h
TrimHistory(h) ==
    IF Len(h) > max_history_length
        THEN SubSeq(h, Len(h) - max_history_length + 1, Len(h))
        ELSE h

\* a reader that returns the oldest entry
get_oldest(d, sensor_id) ==
    IF sensor_id \in DOMAIN d /\ d[sensor_id] # <<>> THEN <<d[sensor_id][1]>> ELSE <<>>
\* get_latest: the last entry, or (None, None, None), written <<>>
get_latest(d, sensor_id) ==
    IF sensor_id \in DOMAIN d /\ d[sensor_id] # <<>>
        THEN <<d[sensor_id][Len(d[sensor_id])]>> ELSE <<>>
\* a slice that takes the first n entries
SliceFirst(h, n) == SubSeq(h, 1, Min(n, Len(h)))
\* h[-n:]: the last n entries, all of h when n is 0 or exceeds its length
SliceLast(h, n) ==
    IF n = 0 \/ n >= Len(h) THEN h ELSE SubSeq(h, Len(h) - n + 1, Len(h))
RECURSIVE SumValues(_)
SumValues(h) == IF h = <<>> THEN 0 ELSE h[1].value + SumValues(Tail(h))
\* get_avg_last_n_readings: sum(values) / len(values), written as the pair,
\* or None, written <<>>
get_avg_last_n_readings(d, sensor_id, n_readings) ==
    IF sensor_id \notin DOMAIN d THEN <<>>
    ELSE LET values == SliceLast(d[sensor_id], n_readings) IN
         IF values # <<>> THEN <<[sum |-> SumValues(values), len |-> Len(values)]>>
         ELSE <<>>

(***************************************************************************)
(* Streams the peers send.                                                 *)
(***************************************************************************)
SourceName(c) == "S" \o ToString(c)
\* k-th well-formed reading of connection c for source src; connection 1
\* spells the identifier key "sensor", the others "sensor_id"
Reading(c, k, src) ==
    Msg(IF c = 1 THEN src ELSE PyNone, IF c = 1 THEN PyNone ELSE src,
        VNum(10 * c + k), TIso(k), "C")
RECURSIVE ReadingStream(_, _, _)
ReadingStream(c, k, src) ==
    IF k = 0 THEN <<>> ELSE ReadingStream(c, k - 1, src) \o Frame(Reading(c, k, src))

GoodMsg == Msg(PyNone, "S1", VNum(5), TIso(1), "C")
Catalogue ==
    { Serialize(GoodMsg),                                        \* valid reading
      Serialize(Msg("S2", "S1", VNumStr(7), TNone, "C")),        \* both keys, "7", no timestamp
      Serialize(Msg(PyNone, PyNone, VNum(5), TIso(1), "C")),     \* no identifier
      Serialize(Msg(PyNone, "S1", VStr, TIso(1), "C")),          \* value "abc"
      Serialize(Msg(PyNone, "S1", VNone, TIso(1), "C")),         \* value missing
      Serialize(Msg(PyNone, "S1", VNum(5), TBad, "C")),          \* bad timestamp
      <<B("{"), B("}")>>,                                        \* {}
      <<B("7")>>,                                                \* JSON, not an object
      <<B("x")>>,                                                \* not JSON
      <<B("hi"), B("lo")>>,                                      \* not JSON, two-byte character
      <<B("lo")>>,                                               \* no UTF-8: a stray continuation byte
      <<>> }                                                     \* empty line
PartialTails == { <<>>, <<B("x")>>, Serialize(GoodMsg) }
RECURSIVE FrameStreams(_)
FrameStreams(n) ==
    IF n = 0 THEN {<<>>}
    ELSE {l \o <<NL>> \o s : l \in Catalogue, s \in FrameStreams(n - 1)}

(***************************************************************************)
(* Logger (src/main.py).  The world the logger acts on is a record         *)
(*   lg  - the Logger object's fields                                      *)
(*   fs  - the disk: inodes (file contents, a sequence of rows each),      *)
(*         logdir (path -> inode), arcdir (archive csv path -> inode),     *)
(*         zips (archive zip path -> members), mtime (the modification     *)
(*         time of the foreign zips; no other is ever read)                *)
(*   hd  - the open-file objects: [ino, closed, pend], pend being the rows *)
(*         written to the object and not yet flushed to the inode          *)
(*   exc - an exception is propagating                                     *)
(* A path of the log directory is the number the filename pattern yields;  *)
(* an archive path is <<segment name, rotation timestamp>>.                *)
(***************************************************************************)
NamePeriod == 2      \* clock ticks during which strftime(filename_pattern) stays the same
MaxClock == 2        \* the wall clock stops advancing here
MaxReadings == 4     \* log_reading calls of one run
NumThreads == 2      \* threads that may call log_reading
Threads == 1..NumThreads

NoPath == 0 - 1                              \* current_file_path = ""
\* the header line ["timestamp", "sensor_id", "value", "unit"]: four words,
\* of which the first is no ISO date and the third no number
Header == [ts |-> TBad, sensor_id |-> "sensor_id", value |-> VStr, unit |-> "unit"]
\* row = [timestamp.isoformat(), sensor_id, value, unit]          (line 208)
Row(sensor_id, timestamp, value, unit) ==
    [ts |-> TIso(timestamp), sensor_id |-> sensor_id, value |-> VNum(value), unit |-> unit]
\* str(value), as csv.writer writes a field that is no string yet
Str(v) == IF v.kind = "num" THEN VNumStr(v.n) ELSE v
\* the line csv.writer writes for a row
CsvRow(row) == [row EXCEPT !.value = Str(@)]
CsvRows(rows) == [i \in 1..Len(rows) |-> CsvRow(rows[i])]
\* float(text) of a field read back
Float(v) == IF v.kind = "numstr" THEN VNum(v.n) ELSE v
OldRow == CsvRow(Row("T0", 0, 0, "C"))       \* a row left by an earlier run

\* now.strftime(self.filename_pattern)
SegName(now) == now \div NamePeriod

World(l, f, h) == [lg |-> l, fs |-> f, hd |-> h, exc |-> FALSE]
Raise(S) == [S EXCEPT !.exc = TRUE]

\* Logger.__init__
NewLogger(now) ==
    [buffer |-> <<>>, current_file |-> 0, current_writer |-> 0,
     current_file_path |-> NoPath, last_rotation_time |-> now, line_count |-> 0]

\* os.path.exists(path) in the log directory
Exists(S, path) == path \in DOMAIN S.fs.logdir
\* content on disk of the file at a log-directory path
DiskContent(S, path) == S.fs.inodes[S.fs.logdir[path]]
\* os.path.getsize, in rows
FileSize(S, path) == Len(DiskContent(S, path))

\* the file object pushes its pending rows to the inode (append mode)
PushPending(S, h) ==
    [S EXCEPT !.fs.inodes[S.hd[h].ino] = @ \o S.hd[h].pend, !.hd[h].pend = <<>>]
\* file.close(): flushes, then closes; closing a closed file does nothing
CloseHandle(S, h) ==
    IF S.hd[h].closed THEN S ELSE [PushPending(S, h) EXCEPT !.hd[h].closed = TRUE]

\* self.buffer.append(row)                                         (line 209)
BufferAppend(S, row) == [S EXCEPT !.lg.buffer = Append(@, row)]
\* a batch that is flushed one row late
BatchFullStrict(S, c) == Len(S.lg.buffer) > c.buffer_size
\* len(self.buffer) >= self.buffer_size                            (line 210)
BatchFull(S, c) == Len(S.lg.buffer) >= c.buffer_size
\* a flush that is skipped once the file is closed
FlushTestOpen(S) == S.lg.current_file # 0 /\ S.lg.buffer # <<>>
\* if self.current_writer and self.buffer                          (line 216)
FlushTest(S) == S.lg.current_writer # 0 /\ S.lg.buffer # <<>>
\* self.current_writer.writerows(self.buffer)                      (line 217)
WriteRows(S) ==
    LET w == S.lg.current_writer IN
    IF w = 0 \/ S.hd[w].closed THEN Raise(S)
    ELSE [S EXCEPT !.hd[w].pend = @ \o CsvRows(S.lg.buffer)]
\* a counter that advances by one for each flush
CountOne(S) == [S EXCEPT !.lg.line_count = @ + 1]
\* self.line_count += len(self.buffer)                             (line 218)
CountRows(S) == [S EXCEPT !.lg.line_count = @ + Len(S.lg.buffer)]
\* a flush that keeps its batch
ClearSkipped(S) == S
\* self.buffer.clear()                                             (line 220)
ClearBuffer(S) == [S EXCEPT !.lg.buffer = <<>>]
\* self.current_file.flush()                                       (line 221)
FileFlush(S) ==
    LET f == S.lg.current_file IN
    IF f = 0 \/ S.hd[f].closed THEN Raise(S) ELSE PushPending(S, f)

\* Logger._needs_rotation                                          (lines 223-235)
TimeTrigger(S, c, now) == now - S.lg.last_rotation_time >= c.rotate_every_hours
SizeTrigger(S, c) ==
    /\ Exists(S, S.lg.current_file_path)
    /\ FileSize(S, S.lg.current_file_path) >= c.max_size_mb
\* a line trigger that fires one row late
LinesTriggerStrict(S, c) ==
    c.rotate_after_lines # 0 /\ S.lg.line_count > c.rotate_after_lines
LinesTrigger(S, c) ==
    c.rotate_after_lines # 0 /\ S.lg.line_count >= c.rotate_after_lines
\* a check that needs every trigger at once
NeedsRotationAll(S, c, now) ==
    TimeTrigger(S, c, now) /\ SizeTrigger(S, c) /\ LinesTrigger(S, c)
NeedsRotation(S, c, now) ==
    TimeTrigger(S, c, now) \/ SizeTrigger(S, c) \/ LinesTrigger(S, c)

\* a stop that leaves the file open
CloseSkipped(S) == S
\* if self.current_file: self.current_file.close()                 (lines 202-203)
CloseCurrent(S) ==
    IF S.lg.current_file = 0 THEN S ELSE CloseHandle(S, S.lg.current_file)
\* self.current_file = None                                        (line 204)
ClearCurrent(S) == [S EXCEPT !.lg.current_file = 0]

\* archive path of the rotated segment                             (lines 242-246)
ArchivePath(S, now) == <<S.lg.current_file_path, now>>
\* shutil.move(src, dst): raises when src has vanished; replaces dst
MoveToArchive(S, src, dst) ==
    IF ~Exists(S, src) THEN Raise(S)
    ELSE [S EXCEPT
            !.fs.arcdir = [p \in (DOMAIN @) \cup {dst} |->
                              IF p = dst THEN S.fs.logdir[src] ELSE @[p]],
            !.fs.logdir = [p \in (DOMAIN @) \ {src} |-> @[p]]]
\* ZipFile(zip_path, 'w') ... zipf.write(file_path): the zip is created
\* (replacing one of that name) before the member is read       (lines 262-265)
ZipWrite(S, dst) ==
    LET members == IF dst \in DOMAIN S.fs.arcdir
                       THEN <<S.fs.inodes[S.fs.arcdir[dst]]>> ELSE <<>>
        T == [S EXCEPT !.fs.zips =
                  [p \in (DOMAIN @) \cup {dst} |-> IF p = dst THEN members ELSE @[p]]]
    IN IF dst \in DOMAIN S.fs.arcdir THEN T ELSE Raise(T)
\* os.remove(file_path)                                            (line 266)
RemoveArchived(S, dst) ==
    IF dst \notin DOMAIN S.fs.arcdir THEN Raise(S)
    ELSE [S EXCEPT !.fs.arcdir = [p \in (DOMAIN @) \ {dst} |-> @[p]]]

\* Logger.start, lines 184-189: the path, the existence test, open(path, 'a')
StartOpen(S, now) ==
    LET path == SegName(now)
        isnew == ~Exists(S, path)
        ino == IF isnew THEN Len(S.fs.inodes) + 1 ELSE S.fs.logdir[path]
        h == Len(S.hd) + 1
    IN [S EXCEPT
          !.fs.inodes = IF isnew THEN Append(@, <<>>) ELSE @,
          !.fs.logdir = IF isnew THEN [p \in (DOMAIN @) \cup {path} |->
                                          IF p = path THEN ino ELSE @[p]] ELSE @,
          !.hd = Append(@, [ino |-> ino, closed |-> FALSE, pend |-> <<>>]),
          !.lg.current_file_path = path,
          !.lg.current_file = h,
          !.lg.current_writer = h]
\* a start() that writes the header row whether the file existed or not
StartHeaderAlways(S, file_exists, now) ==
    LET w == S.lg.current_writer IN
    IF S.hd[w].closed THEN Raise(S)
    ELSE [S EXCEPT !.lg.last_rotation_time = now, !.hd[w].pend = Append(@, Header)]
\* lines 190-192: the header row of a new file, last_rotation_time
StartHeader(S, file_exists, now) ==
    LET w == S.lg.current_writer
        T == [S EXCEPT !.lg.last_rotation_time = now] IN
    IF file_exists THEN T
    ELSE IF S.hd[w].closed THEN Raise(S)
    ELSE [T EXCEPT !.hd[w].pend = Append(@, Header)]
\* a count that takes the header row for a data row
StartCountAll(S) ==
    LET path == S.lg.current_file_path
    IN [S EXCEPT !.lg.line_count = IF Exists(S, path) THEN FileSize(S, path) ELSE 0]
\* lines 193-198: line_count = lines of the file on disk - 1, at least 0
StartCount(S) ==
    LET path == S.lg.current_file_path
        n == IF Exists(S, path) THEN FileSize(S, path) - 1 ELSE 0
    IN [S EXCEPT !.lg.line_count = IF n < 0 THEN 0 ELSE n]

\* Whole calls, for the single-threaded parts of the start-up script
FlushFn(S) ==
    IF ~FlushTest(S) THEN S
    ELSE LET A == WriteRows(S) IN
         IF A.exc THEN A
         ELSE FileFlush(ClearBuffer(CountRows(A)))
StopFn(S) ==
    LET A == FlushFn(S) IN IF A.exc THEN A ELSE ClearCurrent(CloseCurrent(A))
StartFn(S, now) ==
    LET file_exists == Exists(S, SegName(now))
        A == StartHeader(StartOpen(S, now), file_exists, now)
    IN IF A.exc THEN A ELSE StartCount(A)

(***************************************************************************)
(* Logger.read_logs and Logger.delete_old_logs                             *)
(***************************************************************************)
NoStamp == 0 - 99        \* an archive name whose suffix strptime rejects
\* a range that leaves its bounds out
InRangeExclusive(t, start, end) == start < t /\ t < end
\* start <= ts <= end                                    (lines 316, 337)
InRange(t, start, end) == start <= t /\ t <= end
\* not sensor_id or row["sensor_id"] == sensor_id        (lines 316, 337)
SensorMatches(row, sensor_id) == sensor_id = PyNone \/ row.sensor_id = sensor_id
\* the loop of lines 313-320 ended by the first row fromisoformat rejects
RECURSIVE ScanRowsAbort(_, _, _, _)
ScanRowsAbort(rows, start, end, sensor_id) ==
    IF rows = <<>> \/ Head(rows).ts.kind # "iso" THEN <<>>
    ELSE LET r == Head(rows)
             rest == ScanRowsAbort(Tail(rows), start, end, sensor_id)
         IN IF InRange(r.ts.t, start, end) /\ SensorMatches(r, sensor_id)
            THEN <<r>> \o rest
            ELSE rest
\* the loop over the rows of a DictReader, lines 313-320: a row whose
\* timestamp fromisoformat rejects is skipped
RECURSIVE ScanRows(_, _, _, _)
ScanRows(rows, start, end, sensor_id) ==
    IF rows = <<>> THEN <<>>
    ELSE LET r == Head(rows)
             rest == ScanRows(Tail(rows), start, end, sensor_id)
         IN IF r.ts.kind # "iso" THEN rest
            ELSE IF InRange(r.ts.t, start, end) /\ SensorMatches(r, sensor_id)
                 THEN <<r>> \o rest
                 ELSE rest
\* csv.DictReader takes the first line for the field names; under other
\* names row["timestamp"] raises KeyError and the file is given up (line 324)
ParseCsv(lines, start, end, sensor_id) ==
    IF lines = <<>> \/ Head(lines) # Header THEN <<>>
    ELSE ScanRows(Tail(lines), start, end, sensor_id)
\* one after the other, in the order os.listdir gives
RECURSIVE Concat(_, _)
Concat(f, D) ==
    IF D = {} THEN <<>>
    ELSE LET p == CHOOSE q \in D : TRUE IN f[p] \o Concat(f, D \ {p})
\* a zip file cut short, which ZipFile refuses to open
BadZip == << <<>> >>
\* _parse_zip: every member of the zip; zipfile.BadZipFile is caught and
\* the archive yields nothing                              (line 343)
ParseZip(members, start, end, sensor_id) ==
    IF members = BadZip THEN <<>> ELSE
    Concat([i \in DOMAIN members |-> ParseCsv(members[i], start, end, sensor_id)],
           DOMAIN members)
\* read_logs: the csv files of the log directory, then the zips of the archive
ReadLogsFn(S, start, end, sensor_id) ==
    Concat([p \in DOMAIN S.fs.logdir |->
               ParseCsv(DiskContent(S, p), start, end, sensor_id)], DOMAIN S.fs.logdir)
    \o Concat([p \in DOMAIN S.fs.zips |->
               ParseZip(S.fs.zips[p], start, end, sensor_id)], DOMAIN S.fs.zips)

\* delete_old_logs, lines 280-284: the date in the name, else the mtime
FileDate(S, p) == IF p[2] # NoStamp THEN p[2] ELSE S.fs.mtime[p]
\* a threshold test that also drops the entry dated at the threshold
OlderOrEqual(file_date, threshold) == file_date <= threshold
\* file_date < threshold                                          (line 286)
Older(file_date, threshold) == file_date < threshold
\* the zips delete_old_logs removes at instant now
Expired(S, c, now) ==
    {p \in DOMAIN S.fs.zips : Older(FileDate(S, p), now - c.retention_days)}
DeleteOldLogsFn(S, c, now) ==
    LET gone == Expired(S, c, now) IN
    [S EXCEPT !.fs.zips = [p \in (DOMAIN @) \ gone |-> @[p]],
              !.fs.mtime = [p \in (DOMAIN @) \ gone |-> @[p]]]

(***************************************************************************)
(* State                                                                   *)
(***************************************************************************)
VARIABLES
    \* SensorServer and its connection handlers
    running,      \* SensorServer.running
    srv_pc,       \* server thread: "new", "accepting", "stopped"
    stop_req,     \* the GUI has stopped the server (stop_server ran)
    h_pc,         \* per connection: where its handler thread is
    sent,         \* per connection: every byte the peer sends (never changes)
    peer,         \* per connection: "open", or "closed" once the peer's close has arrived
    net,          \* per connection: bytes sent and not yet returned by recv
    rbuf,         \* per connection: the handler's receive buffer
    cur,          \* per connection: the frame being processed
    processed,    \* per connection: the frames processed so far, with their outcome
    \* SensorDataBuffer
    data,         \* SensorDataBuffer.data: sensor id -> history
    lock,         \* SensorDataBuffer.lock: 0 or the connection whose handler holds it
    arrivals,     \* sensor id -> every reading appended, in the order of the appends
    view,         \* what the GUI's last read of the buffer returned
    \* Logger
    cfg,          \* the logger's configuration
    clock,        \* wall clock (datetime.now())
    lg, fs, hd,   \* the logger's world, see above
    active,       \* the threads that call the logger
    quota,        \* log_reading calls the run makes at most
    t_pc,         \* per thread: the statement it is at
    t_stk,        \* per thread: where its pending calls return to
    t_loc,        \* per thread: local variables of _rotate and start
    submitted,    \* rows handed to log_reading, in call order
    last_op,      \* the last public Logger method called
    ops,          \* the public Logger methods called since start(), in call order
    query,        \* the last read_logs call: its arguments and the rows it yielded
    swept,        \* the archives delete_old_logs has removed
    \* NetworkClient
    cl,           \* the client object and the thread using it
    wire          \* the client's connection and the server end of it

srv_vars == <<running, srv_pc, stop_req, h_pc, sent, peer, net, rbuf, cur, processed,
              data, lock, arrivals, view>>
log_vars == <<cfg, clock, lg, fs, hd, active, quota, t_pc, t_stk, t_loc, submitted,
              last_op, ops, query, swept>>
cli_vars == <<cl, wire>>
vars == <<srv_vars, log_vars, cli_vars>>

TheWorld == World(lg, fs, hd)
Commit(S) == lg' = S.lg /\ fs' = S.fs /\ hd' = S.hd

EmptyDisk == [inodes |-> <<>>, logdir |-> <<>>, arcdir |-> <<>>, zips |-> <<>>, mtime |-> <<>>]
\* a log directory left by an earlier run: the segment of instant 0, with one row
UsedDisk == [inodes |-> << <<Header, OldRow>> >>, logdir |-> (SegName(0) :> 1),
             arcdir |-> <<>>, zips |-> <<>>, mtime |-> <<>>]
NoLocals == [dst |-> <<NoPath, 0>>, file_exists |-> FALSE, now |-> 0]
\* read_logs has not been called
NoQuery == [done |-> FALSE, start |-> 0, end |-> 0, sensor_id |-> PyNone, rows |-> <<>>]
\* the GUI has not read the buffer
NoView == [op |-> "none", sensor_id |-> "", n |-> 0, result |-> <<>>]
\* no NetworkClient has been created (the server mode)
NoClient == [pc |-> "none", sock |-> FALSE, retries |-> 0, tries |-> <<>>,
             sending |-> 0, calls |-> <<>>]
NoWire == [out |-> <<>>, acks |-> <<>>, written |-> <<>>, open |-> FALSE]
ClientOff == cl = NoClient /\ wire = NoWire

\* config.json: the defaults of Logger.__init__ scaled to the model
DefaultConfig ==
    [buffer_size |-> 2, rotate_every_hours |-> MaxClock + 1,
     max_size_mb |-> MaxReadings + 3, rotate_after_lines |-> 0, retention_days |-> 1]
Configs ==
    [buffer_size : 1..2, rotate_every_hours : {1, MaxClock + 1},
     max_size_mb : {3, MaxReadings + 3}, rotate_after_lines : 0..(MaxReadings - 1),
     retention_days : {1}]

\* the configurations of the multi-threaded runs: every flush rotates
ConfigsMT ==
    [buffer_size : 1..2, rotate_every_hours : {MaxClock + 1},
     max_size_mb : {MaxReadings + 3}, rotate_after_lines : {1}, retention_days : {1}]

\* logger = Logger("config.json"); logger.start()        (main.py lines 359-360)
LoggerInit(config, disk, threads, calls) ==
    LET S == StartFn(World(NewLogger(0), disk, <<>>), 0) IN
    /\ cfg = config
    /\ clock = 0
    /\ lg = S.lg /\ fs = S.fs /\ hd = S.hd
    /\ active = threads
    /\ quota = calls
    /\ t_pc = [t \in Threads |-> "idle"]
    /\ t_stk = [t \in Threads |-> <<>>]
    /\ t_loc = [t \in Threads |-> NoLocals]
    /\ submitted = <<>>
    /\ last_op = "start" /\ ops = <<>>
    /\ query = NoQuery /\ swept = {}

(***************************************************************************)
(* Logger threads: one action per statement of log_reading, _flush, stop,  *)
(* _rotate, _archive_zip and start, so that threads interleave where the   *)
(* interpreter can switch between them.                                    *)
(***************************************************************************)
At(t, label) == t \in active /\ t_pc[t] = label
Goto(t, label) == t_pc' = [t_pc EXCEPT ![t] = label] /\ UNCHANGED t_stk
\* call a method whose first statement is `label`; come back at `back`
Call(t, label, back) ==
    /\ t_pc' = [t_pc EXCEPT ![t] = label]
    /\ t_stk' = [t_stk EXCEPT ![t] = <<back>> \o @]
Return(t) ==
    /\ t_pc' = [t_pc EXCEPT ![t] = Head(t_stk[t])]
    /\ t_stk' = [t_stk EXCEPT ![t] = Tail(@)]
\* an exception no frame of the logger catches ends the call and its thread
Throw(t) ==
    /\ t_pc' = [t_pc EXCEPT ![t] = "raised"]
    /\ t_stk' = [t_stk EXCEPT ![t] = <<>>]
LogFrame == UNCHANGED <<srv_vars, cli_vars, cfg, active, quota, query, swept>>

\* log_reading, lines 208-209
LogReading(t) ==
    /\ At(t, "idle")
    /\ Len(submitted) < quota
    /\ LET n == Len(submitted) + 1
           row == Row("T" \o ToString(t), n, n, "C")
       IN /\ Commit(BufferAppend(TheWorld, row))
          /\ submitted' = Append(submitted, row)
    /\ last_op' = "log" /\ ops' = Append(ops, "log")
    /\ t_pc' = [t_pc EXCEPT ![t] = "lr_size"]
    /\ t_stk' = [t_stk EXCEPT ![t] = <<"idle">>]
    /\ UNCHANGED <<clock, t_loc>> /\ LogFrame

\* log_reading, lines 210-211
LrSize(t) ==
    /\ At(t, "lr_size")
    /\ IF BatchFull(TheWorld, cfg) THEN Call(t, "fl_test", "lr_needs")
                                   ELSE Goto(t, "lr_needs")
    /\ UNCHANGED <<clock, lg, fs, hd, t_loc, submitted, last_op, ops>> /\ LogFrame

\* _flush, line 216
FlTest(t) ==
    /\ At(t, "fl_test")
    /\ IF FlushTest(TheWorld) THEN Goto(t, "fl_write") ELSE Return(t)
    /\ UNCHANGED <<clock, lg, fs, hd, t_loc, submitted, last_op, ops>> /\ LogFrame

\* a statement of the logger that may raise
Step(t, R, next) ==
    IF R.exc THEN Throw(t) /\ UNCHANGED <<lg, fs, hd>>
    ELSE Commit(R) /\ Goto(t, next)
\* the last statement of a method: may raise, else returns
LastStep(t, R) ==
    IF R.exc THEN Throw(t) /\ UNCHANGED <<lg, fs, hd>>
    ELSE Commit(R) /\ Return(t)

\* _flush, line 217
FlWrite(t) ==
    /\ At(t, "fl_write")
    /\ Step(t, WriteRows(TheWorld), "fl_count")
    /\ UNCHANGED <<clock, t_loc, submitted, last_op, ops>> /\ LogFrame
\* _flush, line 218
FlCount(t) ==
    /\ At(t, "fl_count")
    /\ Step(t, CountRows(TheWorld), "fl_clear")
    /\ UNCHANGED <<clock, t_loc, submitted, last_op, ops>> /\ LogFrame
\* _flush, line 220
FlClear(t) ==
    /\ At(t, "fl_clear")
    /\ Step(t, ClearBuffer(TheWorld), "fl_flush")
    /\ UNCHANGED <<clock, t_loc, submitted, last_op, ops>> /\ LogFrame
\* _flush, line 221
FlFlush(t) ==
    /\ At(t, "fl_flush")
    /\ LastStep(t, FileFlush(TheWorld))
    /\ UNCHANGED <<clock, t_loc, submitted, last_op, ops>> /\ LogFrame

\* log_reading, lines 212-213: _rotate starts by calling stop (line 239)
LrNeeds(t) ==
    /\ At(t, "lr_needs")
    /\ IF NeedsRotation(TheWorld, cfg, clock) THEN Call(t, "st_flush", "rot_exists")
                                             ELSE Return(t)
    /\ UNCHANGED <<clock, lg, fs, hd, t_loc, submitted, last_op, ops>> /\ LogFrame

\* stop, line 201
StFlush(t) ==
    /\ At(t, "st_flush")
    /\ Call(t, "fl_test", "st_close")
    /\ UNCHANGED <<clock, lg, fs, hd, t_loc, submitted, last_op, ops>> /\ LogFrame
\* stop, lines 202-203
StClose(t) ==
    /\ At(t, "st_close")
    /\ IF lg.current_file # 0
          THEN Commit(CloseCurrent(TheWorld)) /\ Goto(t, "st_none")
          ELSE UNCHANGED <<lg, fs, hd>> /\ Return(t)
    /\ UNCHANGED <<clock, t_loc, submitted, last_op, ops>> /\ LogFrame
\* stop, line 204
StNone(t) ==
    /\ At(t, "st_none")
    /\ LastStep(t, ClearCurrent(TheWorld))
    /\ UNCHANGED <<clock, t_loc, submitted, last_op, ops>> /\ LogFrame

\* _rotate, lines 241-246
RotExists(t) ==
    /\ At(t, "rot_exists")
    /\ IF Exists(TheWorld, lg.current_file_path)
          THEN /\ t_loc' = [t_loc EXCEPT ![t].dst = ArchivePath(TheWorld, clock)]
               /\ Goto(t, "rot_move")
          ELSE /\ UNCHANGED t_loc
               /\ Goto(t, "sta_open")
    /\ UNCHANGED <<clock, lg, fs, hd, submitted, last_op, ops>> /\ LogFrame
\* a try block whose handler does not catch what the statement raises
TryUncaught(t, R, next, handler) ==
    IF R.exc THEN Throw(t) /\ UNCHANGED <<lg, fs, hd>>
    ELSE Commit(R) /\ Goto(t, next)
\* a statement inside a try block of _rotate or _archive_zip: on an
\* exception what the statement already did stays and the handler goes on
Try(t, R, next, handler) ==
    /\ Commit(R)
    /\ Goto(t, IF R.exc THEN handler ELSE next)
\* _rotate, line 249 (except: line 252)
RotMove(t) ==
    /\ At(t, "rot_move")
    /\ Try(t, MoveToArchive(TheWorld, lg.current_file_path, t_loc[t].dst),
           "rot_zip", "sta_open")
    /\ UNCHANGED <<clock, t_loc, submitted, last_op, ops>> /\ LogFrame
\* _archive_zip, lines 262-265 (except: line 268)
RotZip(t) ==
    /\ At(t, "rot_zip")
    /\ Try(t, ZipWrite(TheWorld, t_loc[t].dst), "rot_rm", "sta_open")
    /\ UNCHANGED <<clock, t_loc, submitted, last_op, ops>> /\ LogFrame
\* _archive_zip, line 266 (except: line 268)
RotRemove(t) ==
    /\ At(t, "rot_rm")
    /\ Try(t, RemoveArchived(TheWorld, t_loc[t].dst), "sta_open", "sta_open")
    /\ UNCHANGED <<clock, t_loc, submitted, last_op, ops>> /\ LogFrame

\* start, lines 184-189
StaOpen(t) ==
    /\ At(t, "sta_open")
    /\ t_loc' = [t_loc EXCEPT ![t].now = clock,
                              ![t].file_exists = Exists(TheWorld, SegName(clock))]
    /\ Commit(StartOpen(TheWorld, clock))
    /\ Goto(t, "sta_header")
    /\ UNCHANGED <<clock, submitted, last_op, ops>> /\ LogFrame
\* start, lines 190-192
StaHeader(t) ==
    /\ At(t, "sta_header")
    /\ Step(t, StartHeader(TheWorld, t_loc[t].file_exists, t_loc[t].now), "sta_count")
    /\ UNCHANGED <<clock, t_loc, submitted, last_op, ops>> /\ LogFrame
\* start, lines 193-198
StaCount(t) ==
    /\ At(t, "sta_count")
    /\ LastStep(t, StartCount(TheWorld))
    /\ UNCHANGED <<clock, t_loc, submitted, last_op, ops>> /\ LogFrame

\* the last thread standing calls stop(), as the start-up script does
\* when its loop is over                                (main.py line 451)
Quiet == \A u \in active : t_pc[u] \in {"idle", "raised"}
StopCall(t) ==
    /\ At(t, "idle")
    /\ Quiet
    /\ last_op # "stop"
    /\ last_op' = "stop" /\ ops' = Append(ops, "stop")
    /\ t_pc' = [t_pc EXCEPT ![t] = "st_flush"]
    /\ t_stk' = [t_stk EXCEPT ![t] = <<"idle">>]
    /\ UNCHANGED <<clock, lg, fs, hd, t_loc, submitted>> /\ LogFrame

\* time passes
Tick ==
    /\ clock < MaxClock
    /\ clock' = clock + 1
    /\ UNCHANGED <<lg, fs, hd, t_pc, t_stk, t_loc, submitted, last_op, ops>> /\ LogFrame

\* an explicit flush between two calls of a logger not yet stopped
MaxOps == 4              \* flush is called among the first MaxOps calls
FlushCall(t) ==
    /\ At(t, "idle")
    /\ Quiet
    /\ Len(ops) < MaxOps
    /\ \A i \in 1..Len(ops) : ops[i] # "stop"
    /\ last_op' = "flush" /\ ops' = Append(ops, "flush")
    /\ t_pc' = [t_pc EXCEPT ![t] = "fl_test"]
    /\ t_stk' = [t_stk EXCEPT ![t] = <<"idle">>]
    /\ UNCHANGED <<clock, lg, fs, hd, t_loc, submitted>> /\ LogFrame

\* read_logs(start, end, sensor_id), consumed to the end: the last thing
\* the thread does
ReadLogs(t, start, end, sensor_id) ==
    /\ At(t, "idle")
    /\ Quiet
    /\ ~query.done
    /\ t_pc' = [t_pc EXCEPT ![t] = "done"]
    /\ query' = [done |-> TRUE, start |-> start, end |-> end, sensor_id |-> sensor_id,
                 rows |-> ReadLogsFn(TheWorld, start, end, sensor_id)]
    /\ last_op' = "read" /\ ops' = Append(ops, "read")
    /\ UNCHANGED <<srv_vars, cli_vars, cfg, clock, lg, fs, hd, active, quota,
                   t_stk, t_loc, submitted, swept>>

\* delete_old_logs, which the script calls once, after logger.stop()
\*                                                 (main.py lines 451-460)
DeleteOldLogs(t) ==
    /\ At(t, "idle")
    /\ Quiet
    /\ last_op = "stop"
    /\ swept = {} /\ \A i \in 1..Len(ops) : ops[i] # "delete"
    /\ Commit(DeleteOldLogsFn(TheWorld, cfg, clock))
    /\ swept' = swept \cup Expired(TheWorld, cfg, clock)
    /\ last_op' = "delete" /\ ops' = Append(ops, "delete")
    /\ UNCHANGED <<srv_vars, cli_vars, cfg, clock, active, quota,
                   t_pc, t_stk, t_loc, submitted, query>>

LoggerStep(t) ==
    \/ LogReading(t) \/ LrSize(t) \/ LrNeeds(t)
    \/ FlTest(t) \/ FlWrite(t) \/ FlCount(t) \/ FlClear(t) \/ FlFlush(t)
    \/ StFlush(t) \/ StClose(t) \/ StNone(t)
    \/ RotExists(t) \/ RotMove(t) \/ RotZip(t) \/ RotRemove(t)
    \/ StaOpen(t) \/ StaHeader(t) \/ StaCount(t)
    \/ StopCall(t)
LoggerNext == (\E t \in Threads : LoggerStep(t)) \/ Tick

\* the server side is not running in the logger's specifications
ListenerOff ==
    /\ running = FALSE /\ srv_pc = "new" /\ stop_req = FALSE
    /\ h_pc = [c \in Conns |-> "absent"]
    /\ sent = [c \in Conns |-> <<>>]
    /\ peer = [c \in Conns |-> "open"]
    /\ net = [c \in Conns |-> <<>>]
    /\ rbuf = [c \in Conns |-> <<>>]
    /\ cur = [c \in Conns |-> <<>>]
    /\ processed = [c \in Conns |-> <<>>]
    /\ data = <<>> /\ lock = 0 /\ arrivals = <<>> /\ view = NoView
ServerOff == ListenerOff /\ ClientOff

\* one thread calls the logger (the sensor loop of the client mode)
LoggerInitSeq ==
    /\ \E config \in Configs, disk \in {EmptyDisk, UsedDisk} :
           LoggerInit(config, disk, {1}, MaxReadings)
    /\ ServerOff
SpecLogger == LoggerInitSeq /\ [][LoggerNext]_vars

\* the store: one thread logs, flushes, stops, sweeps the archive and queries
MaxStoreCalls == 2       \* log_reading calls of a run of the store
\* an archive directory left by earlier runs: two archives of the logger, of
\* two and of one tick before the start, and a foreign zip with an old mtime
ArchiveDisk ==
    [inodes |-> <<>>, logdir |-> <<>>, arcdir |-> <<>>,
     zips |-> (<<0, 0 - 2>> :> << <<Header, OldRow>> >>)
              @@ (<<0, 0 - 1>> :> << <<Header, OldRow>> >>)
              @@ (<<9, NoStamp>> :> << <<Header, OldRow>> >>),
     mtime |-> (<<9, NoStamp>> :> 0 - 2)]
ConfigsStore ==
    [buffer_size : 1..2, rotate_every_hours : {MaxClock + 1},
     max_size_mb : {MaxReadings + 3}, rotate_after_lines : {0, 1},
     retention_days : {1}]
QueryTimes == 0..MaxStoreCalls
QuerySensors == {PyNone, "T0", "T1"}
StoreNext ==
    \/ LoggerNext
    \/ \E t \in Threads :
         \/ FlushCall(t)
         \/ \E start \in QueryTimes, end \in QueryTimes, sensor_id \in QuerySensors :
                ReadLogs(t, start, end, sensor_id)
StoreInit ==
    /\ \E config \in ConfigsStore, disk \in {EmptyDisk, UsedDisk} :
           LoggerInit(config, disk, {1}, MaxStoreCalls)
    /\ ServerOff
SpecStore == StoreInit /\ [][StoreNext]_vars

\* queries over a store that holds rows whose timestamp does not parse and
\* an archive that is no zip file
BadTsRow == [OldRow EXCEPT !.ts = TBad]
DamagedDisk ==
    [inodes |-> << <<Header, BadTsRow, OldRow>> >>, logdir |-> (SegName(0) :> 1),
     arcdir |-> <<>>,
     zips |-> (<<0, 0 - 2>> :> BadZip)
              @@ (<<0, 0 - 1>> :> << <<Header, BadTsRow, OldRow>> >>),
     mtime |-> <<>>]
ScanInit ==
    /\ \E config \in ConfigsStore : LoggerInit(config, DamagedDisk, {1}, MaxStoreCalls)
    /\ ServerOff
SpecScan == ScanInit /\ [][StoreNext]_vars

\* the retention sweep at the end of the script, over what the run and
\* earlier runs have archived
ConfigsSweep ==
    [buffer_size : {1}, rotate_every_hours : {MaxClock + 1},
     max_size_mb : {MaxReadings + 3}, rotate_after_lines : {1, 2},
     retention_days : 0..MaxClock]
SweepNext == LoggerNext \/ \E t \in Threads : DeleteOldLogs(t)
SweepInit ==
    /\ \E config \in ConfigsSweep, disk \in {EmptyDisk, ArchiveDisk} :
           LoggerInit(config, disk, {1}, MaxStoreCalls)
    /\ ServerOff
SpecSweep == SweepInit /\ [][SweepNext]_vars

\* rotation under failures: the segment file is removed by somebody else,
\* shutil.move raises, the ZipFile write raises, os.remove raises
\* another process removes the segment file
Vanish ==
    /\ lg.current_file_path \in DOMAIN fs.logdir
    /\ \E t \in active : t_pc[t] \in {"rot_exists", "rot_move"}
    /\ fs' = [fs EXCEPT !.logdir = [p \in DOMAIN fs.logdir \ {lg.current_file_path}
                                       |-> fs.logdir[p]]]
    /\ UNCHANGED <<clock, lg, hd, t_pc, t_stk, t_loc, submitted, last_op, ops>>
    /\ LogFrame
\* shutil.move raises and has renamed nothing: except of line 252
RotMoveFails(t) ==
    /\ At(t, "rot_move")
    /\ Goto(t, "sta_open")
    /\ UNCHANGED <<clock, lg, fs, hd, t_loc, submitted, last_op, ops>> /\ LogFrame
\* ZipFile(..., 'w') or zipf.write raises, before the zip file exists or
\* with a zip file cut short: except of line 268
RotZipFails(t, cut) ==
    /\ At(t, "rot_zip")
    /\ fs' = IF cut THEN [fs EXCEPT !.zips = (t_loc[t].dst :> BadZip) @@ fs.zips]
                    ELSE fs
    /\ Goto(t, "sta_open")
    /\ UNCHANGED <<clock, lg, hd, t_loc, submitted, last_op, ops>> /\ LogFrame
\* os.remove raises: except of line 268
RotRemoveFails(t) ==
    /\ At(t, "rot_rm")
    /\ Goto(t, "sta_open")
    /\ UNCHANGED <<clock, lg, fs, hd, t_loc, submitted, last_op, ops>> /\ LogFrame
FaultsNext ==
    \/ LoggerNext
    \/ Vanish
    \/ \E t \in Threads :
         \/ RotMoveFails(t)
         \/ \E cut \in BOOLEAN : RotZipFails(t, cut)
         \/ RotRemoveFails(t)
FaultsInit ==
    /\ \E config \in {c \in ConfigsSweep : c.retention_days = 1},
          disk \in {EmptyDisk, UsedDisk} :
           LoggerInit(config, disk, {1}, MaxStoreCalls)
    /\ ServerOff
SpecFaults == FaultsInit /\ [][FaultsNext]_vars

\* several threads call the logger
LoggerInitMT ==
    /\ \E config \in ConfigsMT : LoggerInit(config, EmptyDisk, Threads, NumThreads)
    /\ ServerOff
SpecLoggerMT == LoggerInitMT /\ [][LoggerNext]_vars

(***************************************************************************)
(* SensorServer (src/GUI.py): the server thread, one handler thread per    *)
(* accepted connection, and the GUI callbacks the handlers call.           *)
(***************************************************************************)
SrvFrame == UNCHANGED <<log_vars, cli_vars, view>>
Closed(c) == h_pc[c] \in {"closed_eof", "closed_stop", "closed_err"}
\* back to `while "\n" in buffer`, or to recv
LoopPc(buf) == IF HasNL(buf) THEN "frames" ELSE "recv"
Outcome(line, ack, stored) == [line |-> line, ack |-> ack, stored |-> stored]

\* SensorServer.run, lines 39-46
ServerRun ==
    /\ srv_pc = "new"
    /\ srv_pc' = "accepting"
    /\ running' = TRUE
    /\ UNCHANGED <<stop_req, h_pc, sent, peer, net, rbuf, cur, processed, data, lock, arrivals>>
    /\ SrvFrame

\* SensorServer.run, lines 50-55: accept, start the handler thread
Accept(c) ==
    /\ srv_pc = "accepting"
    /\ h_pc[c] = "pending"
    /\ h_pc' = [h_pc EXCEPT ![c] = "recv"]
    /\ UNCHANGED <<running, srv_pc, stop_req, sent, peer, net, rbuf, cur, processed,
                   data, lock, arrivals>>
    /\ SrvFrame

\* SensorServer.run, lines 48 and 66-70: the loop ends, the socket is closed
ServerExit ==
    /\ srv_pc = "accepting"
    /\ ~running
    /\ srv_pc' = "stopped"
    /\ UNCHANGED <<running, stop_req, h_pc, sent, peer, net, rbuf, cur, processed,
                   data, lock, arrivals>>
    /\ SrvFrame

\* SensorServerGUI.stop_server, lines 308-311 (called by on_closing)
StopServer ==
    /\ ~stop_req
    /\ stop_req' = TRUE
    /\ running' = FALSE
    /\ UNCHANGED <<srv_pc, h_pc, sent, peer, net, rbuf, cur, processed, data, lock, arrivals>>
    /\ SrvFrame

\* _handle_client, lines 85-97: recv returns n bytes, decode, buffer += chunk
Recv(c, n) ==
    /\ h_pc[c] = "recv"
    /\ n \in 1..Min(Len(net[c]), RecvMax)
    /\ LET chunk == SubSeq(net[c], 1, n) IN
       /\ net' = [net EXCEPT ![c] = SubSeq(@, n + 1, Len(@))]
       /\ IF WellFormedUtf8(chunk)
             THEN /\ rbuf' = [rbuf EXCEPT ![c] = @ \o Decode(chunk)]
                  /\ h_pc' = [h_pc EXCEPT ![c] = LoopPc(rbuf[c] \o Decode(chunk))]
             \* UnicodeDecodeError: lines 113-117
             ELSE /\ rbuf' = rbuf
                  /\ h_pc' = [h_pc EXCEPT ![c] = "closed_err"]
    /\ UNCHANGED <<running, srv_pc, stop_req, sent, peer, cur, processed, data, lock, arrivals>>
    /\ SrvFrame

\* _handle_client, lines 86-90: recv timed out and the server is stopping
HandlerStop(c) ==
    /\ h_pc[c] = "recv"
    /\ ~running
    /\ h_pc' = [h_pc EXCEPT ![c] = "closed_stop"]
    /\ UNCHANGED <<running, srv_pc, stop_req, sent, peer, net, rbuf, cur, processed,
                   data, lock, arrivals>>
    /\ SrvFrame

\* the peer closes its end (NetworkClient.close): the handler learns of it
\* once it has read every byte sent before
PeerClose(c) ==
    /\ h_pc[c] # "absent"
    /\ peer[c] = "open"
    /\ net[c] = <<>>
    /\ peer' = [peer EXCEPT ![c] = "closed"]
    /\ UNCHANGED <<running, srv_pc, stop_req, h_pc, sent, net, rbuf, cur, processed,
                   data, lock, arrivals>>
    /\ SrvFrame

\* _handle_client, lines 92-95: the peer has closed, recv returns nothing
RecvEOF(c) ==
    /\ h_pc[c] = "recv"
    /\ net[c] = <<>>
    /\ peer[c] = "closed"
    /\ h_pc' = [h_pc EXCEPT ![c] = "closed_eof"]
    /\ UNCHANGED <<running, srv_pc, stop_req, sent, peer, net, rbuf, cur, processed,
                   data, lock, arrivals>>
    /\ SrvFrame

\* _handle_client lines 101-112 with handle_data_from_server_thread and
\* add_reading up to the lock (lines 136-143): a frame that is no JSON or no
\* object ends without ACK; one add_reading rejects is dropped there
\* (lines 154-157) and the handler goes on to the ACK; the others wait for
\* the buffer's lock
FrameStart(c) ==
    /\ h_pc[c] = "frames"
    /\ LET line == SplitLine(rbuf[c])
           rest == SplitRest(rbuf[c])
           parsed == json_loads(line)
           m == parsed.m
       IN /\ rbuf' = [rbuf EXCEPT ![c] = rest]
          /\ IF parsed.kind = "dict" /\ Converts(m)
                THEN /\ cur' = [cur EXCEPT ![c] =
                             <<[line |-> line, sid |-> SensorIdOf(m), e |-> Entry(m, clock)]>>]
                     /\ h_pc' = [h_pc EXCEPT ![c] = "add"]
                     /\ UNCHANGED processed
                ELSE /\ processed' = [processed EXCEPT ![c] =
                             Append(@, Outcome(line, parsed.kind = "dict", FALSE))]
                     /\ h_pc' = [h_pc EXCEPT ![c] = LoopPc(rest)]
                     /\ UNCHANGED cur
    /\ UNCHANGED <<running, srv_pc, stop_req, sent, peer, net, data, lock, arrivals>>
    /\ SrvFrame

\* threading.Lock: acquire succeeds when nobody holds the lock
\* an acquire that never waits
LockIgnored == TRUE
LockFree == lock = 0

\* add_reading, lines 145-148: take the lock, create the history, append
LockAppend(c) ==
    /\ h_pc[c] = "add"
    /\ LockFree
    /\ lock' = c
    /\ data' = AppendReading(data, cur[c][1].sid, cur[c][1].e)
    /\ arrivals' = AppendReading(arrivals, cur[c][1].sid, cur[c][1].e)
    /\ h_pc' = [h_pc EXCEPT ![c] = "trim"]
    /\ UNCHANGED <<running, srv_pc, stop_req, sent, peer, net, rbuf, cur, processed>>
    /\ SrvFrame

\* add_reading, lines 151-152: trim, release the lock; then the rest of
\* handle_data_from_server_thread and the ACK (_handle_client line 106)
TrimRelease(c) ==
    /\ h_pc[c] = "trim"
    /\ data' = [data EXCEPT ![cur[c][1].sid] = TrimHistory(@)]
    /\ lock' = 0
    /\ processed' = [processed EXCEPT ![c] = Append(@, Outcome(cur[c][1].line, TRUE, TRUE))]
    /\ cur' = [cur EXCEPT ![c] = <<>>]
    /\ h_pc' = [h_pc EXCEPT ![c] = LoopPc(rbuf[c])]
    /\ UNCHANGED <<running, srv_pc, stop_req, sent, peer, net, rbuf, arrivals>>
    /\ SrvFrame

\* main.py line 451: logger.stop() once the GUI's main loop has returned
MainLoggerStop ==
    /\ stop_req
    /\ last_op # "stop"
    /\ Commit(StopFn(TheWorld))
    /\ last_op' = "stop" /\ ops' = Append(ops, "stop")
    /\ UNCHANGED <<srv_vars, cli_vars, cfg, clock, active, quota, t_pc, t_stk, t_loc,
                   submitted, query, swept>>

Next ==
    \/ ServerRun \/ ServerExit \/ StopServer \/ MainLoggerStop
    \/ \E c \in Conns :
         \/ Accept(c) \/ HandlerStop(c) \/ PeerClose(c) \/ RecvEOF(c)
         \/ FrameStart(c) \/ LockAppend(c) \/ TrimRelease(c)
         \/ \E n \in 1..RecvMax : Recv(c, n)

\* the server mode of main.py: the logger is started, the GUI has started
\* its SensorServer thread, the peers in `peers` have connected
ServerInit(peers, streams) ==
    /\ running = FALSE /\ srv_pc = "new" /\ stop_req = FALSE
    /\ h_pc = [c \in Conns |-> IF c \in peers THEN "pending" ELSE "absent"]
    /\ sent = streams
    /\ peer = [c \in Conns |-> "open"]
    /\ net = streams
    /\ rbuf = [c \in Conns |-> <<>>]
    /\ cur = [c \in Conns |-> <<>>]
    /\ processed = [c \in Conns |-> <<>>]
    /\ data = <<>> /\ lock = 0 /\ arrivals = <<>> /\ view = NoView
    /\ LoggerInit(DefaultConfig, EmptyDisk, {}, 0)
    /\ ClientOff

\* every connection sends ReadingsPerConn well-formed readings, for a source
\* of its own or for one shared source
Init ==
    \E shared \in BOOLEAN :
        ServerInit(Conns, [c \in Conns |->
            ReadingStream(c, ReadingsPerConn, IF shared THEN "S1" ELSE SourceName(c))])
Spec == Init /\ [][Next]_vars

\* one connection sends arbitrary frames, possibly ending in a partial frame
InitFrames ==
    \E n \in 0..MaxFrames : \E s \in FrameStreams(n) : \E tl \in PartialTails :
        ServerInit({1}, [c \in Conns |-> IF c = 1 THEN s \o tl ELSE <<>>])
SpecFrames == InitFrames /\ [][Next]_vars

\* the threads of the server mode keep running: the server thread and every
\* handler thread take their next step when they have one; the stop button,
\* the peers and the end of the main script come when they come
LiveReadings == 1
InitLive ==
    ServerInit(Conns, [c \in Conns |-> ReadingStream(c, LiveReadings, SourceName(c))])
ThreadsRun ==
    /\ WF_vars(ServerRun) /\ WF_vars(ServerExit)
    /\ \A c \in Conns :
          /\ WF_vars(Accept(c)) /\ WF_vars(HandlerStop(c)) /\ WF_vars(RecvEOF(c))
          /\ WF_vars(\E n \in 1..RecvMax : Recv(c, n))
          /\ WF_vars(FrameStart(c)) /\ WF_vars(LockAppend(c)) /\ WF_vars(TrimRelease(c))
SpecLive == InitLive /\ [][Next]_vars /\ ThreadsRun

\* update_table: the GUI thread reads the buffer, under the buffer's lock
MaxWindow == 3
Sources == {"S1", "S2", "S3"}
GetLatest(sensor_id) ==
    /\ LockFree
    /\ view' = [op |-> "latest", sensor_id |-> sensor_id, n |-> 0,
                result |-> get_latest(data, sensor_id)]
    /\ UNCHANGED <<running, srv_pc, stop_req, h_pc, sent, peer, net, rbuf, cur,
                   processed, data, lock, arrivals, log_vars, cli_vars>>
GetAvg(sensor_id, n_readings) ==
    /\ LockFree
    /\ view' = [op |-> "avg", sensor_id |-> sensor_id, n |-> n_readings,
                result |-> get_avg_last_n_readings(data, sensor_id, n_readings)]
    /\ UNCHANGED <<running, srv_pc, stop_req, h_pc, sent, peer, net, rbuf, cur,
                   processed, data, lock, arrivals, log_vars, cli_vars>>
\* one connection sends readings of one source past the cap, then readings
\* of another; the GUI reads at any moment
ViewNext ==
    \/ ServerRun
    \/ \E c \in Conns :
         \/ Accept(c) \/ FrameStart(c) \/ LockAppend(c) \/ TrimRelease(c)
         \/ \E n \in 1..RecvMax : Recv(c, n)
    \/ \E sensor_id \in Sources :
         \/ GetLatest(sensor_id)
         \/ \E n \in 1..MaxWindow : GetAvg(sensor_id, n)
OtherReadings == 2
InitView ==
    \E k \in 0..OtherReadings :
        ServerInit({1}, [c \in Conns |->
            IF c = 1 THEN ReadingStream(1, ReadingsPerConn, "S1") \o ReadingStream(1, k, "S2")
            ELSE <<>>])
SpecView == InitView /\ [][ViewNext]_vars
\* the same run, read also with a window of 0 readings
WindowNext == ViewNext \/ \E sensor_id \in Sources : GetAvg(sensor_id, 0)
SpecWindow == InitView /\ [][WindowNext]_vars

(***************************************************************************)
(* NetworkServer (src/server/server.py): the accept loop calls             *)
(* _handle_client itself, so one thread accepts and serves.  Its handler   *)
(* prints the frame and acknowledges it; there is no buffer and no flag.   *)
(***************************************************************************)
\* start, lines 24-27
NsStart ==
    /\ srv_pc = "new"
    /\ srv_pc' = "accepting"
    /\ UNCHANGED <<running, stop_req, h_pc, sent, peer, net, rbuf, cur, processed,
                   data, lock, arrivals>>
    /\ SrvFrame
\* start, lines 31-33: accept, then _handle_client in the same thread
NsAccept(c) ==
    /\ srv_pc = "accepting"
    /\ h_pc[c] = "pending"
    /\ srv_pc' = "handling"
    /\ h_pc' = [h_pc EXCEPT ![c] = "recv"]
    /\ UNCHANGED <<running, stop_req, sent, peer, net, rbuf, cur, processed,
                   data, lock, arrivals>>
    /\ SrvFrame
\* where the thread goes when the handler is at `pc`: back to accept once
\* _handle_client has returned
NsThread(pc) == IF pc \in {"closed_eof", "closed_err"} THEN "accepting" ELSE "handling"
\* _handle_client, lines 45-48: recv returns n bytes, decode, buffer += chunk;
\* a UnicodeDecodeError ends the handler (lines 59-60)
NsRecv(c, n) ==
    /\ h_pc[c] = "recv"
    /\ n \in 1..Min(Len(net[c]), RecvMax)
    /\ LET chunk == SubSeq(net[c], 1, n)
           pc == IF WellFormedUtf8(chunk) THEN LoopPc(rbuf[c] \o Decode(chunk))
                 ELSE "closed_err"
       IN /\ net' = [net EXCEPT ![c] = SubSeq(@, n + 1, Len(@))]
          /\ rbuf' = IF WellFormedUtf8(chunk)
                        THEN [rbuf EXCEPT ![c] = @ \o Decode(chunk)] ELSE rbuf
          /\ h_pc' = [h_pc EXCEPT ![c] = pc]
          /\ srv_pc' = NsThread(pc)
    /\ UNCHANGED <<running, stop_req, sent, peer, cur, processed, data, lock, arrivals>>
    /\ SrvFrame
\* _handle_client, lines 49-58: one frame; a frame that is no JSON is
\* reported and skipped, an object is printed and acknowledged, and for any
\* other JSON value parsed.items() raises and ends the handler
NsFrame(c) ==
    /\ h_pc[c] = "frames"
    /\ LET line == SplitLine(rbuf[c])
           rest == SplitRest(rbuf[c])
           parsed == json_loads(line)
           pc == IF parsed.kind = "scalar" THEN "closed_err" ELSE LoopPc(rest)
       IN /\ rbuf' = [rbuf EXCEPT ![c] = rest]
          /\ processed' = [processed EXCEPT ![c] =
                             Append(@, Outcome(line, parsed.kind = "dict", FALSE))]
          /\ h_pc' = [h_pc EXCEPT ![c] = pc]
          /\ srv_pc' = NsThread(pc)
    /\ UNCHANGED <<running, stop_req, sent, peer, net, cur, data, lock, arrivals>>
    /\ SrvFrame
\* _handle_client, lines 46-47: the peer has closed, recv returns nothing
NsEOF(c) ==
    /\ h_pc[c] = "recv"
    /\ net[c] = <<>>
    /\ peer[c] = "closed"
    /\ h_pc' = [h_pc EXCEPT ![c] = "closed_eof"]
    /\ srv_pc' = "accepting"
    /\ UNCHANGED <<running, stop_req, sent, peer, net, rbuf, cur, processed,
                   data, lock, arrivals>>
    /\ SrvFrame
NsNext ==
    \/ NsStart
    \/ \E c \in Conns :
         \/ NsAccept(c) \/ NsFrame(c) \/ NsEOF(c) \/ PeerClose(c)
         \/ \E n \in 1..RecvMax : NsRecv(c, n)
\* every peer has connected and sends nothing, some readings, or a number
\* and a reading
NsStreams(c) ==
    {ReadingStream(c, k, SourceName(c)) : k \in 0..ReadingsPerConn}
        \cup {<<B("7"), NL>> \o ReadingStream(c, 1, SourceName(c))}
InitNs ==
    \E s1 \in NsStreams(1), s2 \in NsStreams(2) :
        ServerInit(Conns, [c \in Conns |-> IF c = 1 THEN s1 ELSE s2])
\* the one thread takes its next step when it has one; the peers close when
\* they like
NsRuns ==
    /\ WF_vars(NsStart)
    /\ \A c \in Conns :
          /\ WF_vars(NsAccept(c)) /\ WF_vars(NsFrame(c)) /\ WF_vars(NsEOF(c))
          /\ WF_vars(\E n \in 1..RecvMax : NsRecv(c, n))
SpecNs == InitNs /\ [][NsNext]_vars /\ NsRuns

(***************************************************************************)
(* What the properties speak of                                            *)
(***************************************************************************)
\* the last n elements of a sequence (all of it when it is shorter)
LastN(h, n) == SubSeq(h, Max(1, Len(h) - n + 1), Len(h))
\* the complete frames of a character stream, in order
RECURSIVE Lines(_)
Lines(s) == IF HasNL(s) THEN <<SplitLine(s)>> \o Lines(SplitRest(s)) ELSE <<>>
\* what follows the last delimiter
RECURSIVE Partial(_)
Partial(s) == IF HasNL(s) THEN Partial(SplitRest(s)) ELSE s
\* the frames a handler has processed, in order
ProcessedLines(c) == [i \in 1..Len(processed[c]) |-> processed[c][i].line]
\* the bytes recv has returned on connection c
Delivered(c) == SubSeq(sent[c], 1, Len(sent[c]) - Len(net[c]))

\* the run in which every connection sends its readings for its own source
DistinctRun ==
    sent = [c \in Conns |-> ReadingStream(c, ReadingsPerConn, SourceName(c))]
\* the live-buffer entries of the first j readings of connection c
SentEntries(c, j) == [k \in 1..j |-> Entry(Reading(c, k, SourceName(c)), 0)]
AllProcessed == \A c \in Conns : Len(processed[c]) = ReadingsPerConn

\* every data row the durable store holds: the segment files and the
\* members of the archives
RECURSIVE Flatten(_, _)
Flatten(f, D) ==
    IF D = {} THEN <<>>
    ELSE LET p == CHOOSE q \in D : TRUE IN f[p] \o Flatten(f, D \ {p})
DataRows(rows) == SelectSeq(rows, LAMBDA r : r # Header)
SegmentRows == Flatten([p \in DOMAIN fs.logdir |-> fs.inodes[fs.logdir[p]]], DOMAIN fs.logdir)
ArchiveCsvRows == Flatten([p \in DOMAIN fs.arcdir |-> fs.inodes[fs.arcdir[p]]], DOMAIN fs.arcdir)
ZipRows == Flatten([p \in DOMAIN fs.zips |-> Flatten(fs.zips[p], DOMAIN fs.zips[p])],
                   DOMAIN fs.zips)
StoreRows == DataRows(SegmentRows \o ZipRows)
\* the rows the logger was handed: stored, or still in the batch or in a file object
PendingRows == Flatten([h \in DOMAIN hd |-> hd[h].pend], DOMAIN hd)
LoggerRows == DataRows(SegmentRows \o ZipRows \o ArchiveCsvRows \o PendingRows \o CsvRows(lg.buffer))
Count(rows, r) == Len(SelectSeq(rows, LAMBDA x : x = r))

(***************************************************************************)
(* Properties                                                              *)
(***************************************************************************)

\* C1: whenever the buffer's lock is free, the history of every source is
\* exactly the last min(N, max_history_length) of the N readings appended
\* for it, in the order of the appends (so it is never longer than the cap),
\* whatever the interleaving of the handler threads and of other sources.
C1_HistoryIsLastCap ==
    lock = 0 =>
        /\ DOMAIN data = DOMAIN arrivals
        /\ \A s \in DOMAIN data :
               /\ data[s] = LastN(arrivals[s], max_history_length)
               /\ Len(data[s]) = Min(Len(arrivals[s]), max_history_length)
\* two connections have fed one source past the cap, the second one first
C1_Witness ==
    /\ lock = 0
    /\ \E s \in DOMAIN arrivals :
          /\ Len(arrivals[s]) > max_history_length
          /\ arrivals[s][1].value > arrivals[s][2].value
          /\ Len(data[s]) = max_history_length

\* C2: a processed frame is in the live buffer if and only if the logger
\* was handed a row for it (no frame reaches exactly one of the two sinks).
C2_Logged(o) ==
    \E i \in 1..Len(LoggerRows) :
        Float(LoggerRows[i].value) = VNum(json_loads(o.line).m.value.n)
C2_BothSinksOrNeither ==
    \A c \in Conns : \A i \in 1..Len(processed[c]) :
        processed[c][i].stored <=> C2_Logged(processed[c][i])

\* C3: a frame that fails validation (no JSON object, no identifier under
\* either key, value no float, timestamp unparsable) is neither
\* acknowledged nor stored in the live buffer.
ValidFrame(line) ==
    LET p == json_loads(line) IN
    /\ p.kind = "dict"
    /\ SensorIdOf(p.m) # PyNone
    /\ Converts(p.m)
C3_InvalidNeverAcked ==
    \A c \in Conns : \A i \in 1..Len(processed[c]) :
        ~ValidFrame(processed[c][i].line) =>
            ~processed[c][i].ack /\ ~processed[c][i].stored

\* C4: the frames a handler processes are the frames of its stream: never
\* one twice or out of order, and once the stream is delivered and the
\* handler has gone through its buffer (or has ended, the server not
\* stopping), every complete frame has been processed and the partial
\* frame is what the buffer holds.
C4_FramesAreStreamLines ==
    \A c \in Conns :
        /\ \A i \in 1..Len(processed[c]) :
               /\ i <= Len(Lines(Decode(sent[c])))
               /\ processed[c][i].line = Lines(Decode(sent[c]))[i]
        /\ h_pc[c] \in {"closed_eof", "closed_err"}
               => ProcessedLines(c) = Lines(Decode(sent[c]))
        /\ (h_pc[c] = "recv" /\ net[c] = <<>>)
               => /\ ProcessedLines(c) = Lines(Decode(sent[c]))
                  /\ rbuf[c] = Partial(Decode(sent[c]))

\* C5: once every connection's K readings (distinct sources) are processed
\* and the logger is stopped, the durable store holds exactly M*K rows.
C5_StoreHasAllRows ==
    (DistinctRun /\ AllProcessed /\ last_op = "stop")
        => Len(StoreRows) = Cardinality(Conns) * ReadingsPerConn

\* C6: in the run with distinct sources, once a handler has processed j of
\* its frames the history of its source is the last min(j, cap) of its
\* first j readings, in send order, under every interleaving.
C6_DistinctHistories ==
    DistinctRun =>
        \A c \in Conns :
            h_pc[c] \notin {"add", "trim"} =>
                LET j == Len(processed[c]) IN
                IF j = 0 THEN SourceName(c) \notin DOMAIN data
                ELSE /\ SourceName(c) \in DOMAIN data
                     /\ data[SourceName(c)] = LastN(SentEntries(c, j), max_history_length)
\* every connection is through, past the cap
C6_Witness ==
    /\ DistinctRun
    /\ AllProcessed
    /\ ReadingsPerConn > max_history_length
    /\ \A c \in Conns : Len(data[SourceName(c)]) = max_history_length

\* C7: while a thread is inside _flush, past the write to the file object
\* and before the end of the flush, no other thread is between closing the
\* segment and having reopened one (stop's close, _rotate, _archive_zip,
\* start).
InFlush(t) == t \in active /\ t_pc[t] \in {"fl_count", "fl_clear", "fl_flush"}
InReopen(t) ==
    /\ t \in active
    /\ t_pc[t] \in {"st_none", "rot_exists", "rot_move", "rot_zip", "rot_rm",
                    "sta_open", "sta_header", "sta_count"}
C7_FlushExcludesRotate ==
    \A t \in Threads : \A u \in Threads \ {t} : ~(InFlush(t) /\ InReopen(u))

\* C8: an archive entry, once created, stays and keeps its content (the
\* model has no retention sweep: the archive set only grows).
C8_ArchivesImmutable ==
    [][\A p \in DOMAIN fs.zips : p \in DOMAIN fs.zips' /\ fs.zips'[p] = fs.zips[p]]_vars

\* C9: after a sequence of log_reading calls followed by stop(), every
\* submitted row is exactly once in the open segment or in an archive.
AfterStop == last_op = "stop" /\ \A t \in active : t_pc[t] = "idle"
C9_NoRowLost ==
    AfterStop =>
        \A i \in 1..Len(submitted) : Count(StoreRows, CsvRow(submitted[i])) = 1

\* C10 (as stated): rotate_after_lines = L, no time or size trigger, a
\* log directory that starts empty: after L+1 calls of log_reading there
\* is one archive, holding the header and the first L rows, and the open
\* segment holds the header and the (L+1)-th row.
StartedEmpty == ~(Len(fs.inodes[1]) >= 2 /\ fs.inodes[1][2] = OldRow)
OnlyLinesTrigger ==
    /\ cfg.rotate_after_lines # 0
    /\ cfg.rotate_every_hours > MaxClock
    /\ cfg.max_size_mb > MaxReadings + 2
AfterBoundary ==
    /\ OnlyLinesTrigger
    /\ StartedEmpty
    /\ Len(submitted) = cfg.rotate_after_lines + 1
    /\ last_op = "log"
    /\ \A t \in active : t_pc[t] = "idle"
BoundaryOutcome ==
    LET L == cfg.rotate_after_lines IN
    /\ Cardinality(DOMAIN fs.zips) = 1
    /\ \A p \in DOMAIN fs.zips :
           fs.zips[p] = << <<Header>> \o CsvRows(SubSeq(submitted, 1, L)) >>
    /\ DOMAIN fs.arcdir = {}
    /\ DOMAIN fs.logdir = {lg.current_file_path}
    /\ DiskContent(TheWorld, lg.current_file_path) = <<Header, CsvRow(submitted[L + 1])>>
    /\ lg.current_file # 0 /\ ~hd[lg.current_file].closed
C10_AsStated == AfterBoundary => BoundaryOutcome
\* C10 (amended): the same with buffer_size = 1 and L >= 2.
C10_RotationBoundary ==
    (AfterBoundary /\ cfg.buffer_size = 1 /\ cfg.rotate_after_lines >= 2)
        => BoundaryOutcome
C10_Witness ==
    /\ AfterBoundary /\ cfg.buffer_size = 1 /\ cfg.rotate_after_lines = 3
    /\ BoundaryOutcome

(***************************************************************************)
(* NetworkClient (src/network/client.py): one thread connects, sends       *)
(* readings one at a time and closes, as the client mode of main.py does.  *)
(* The server end of the connection acknowledges frames and may close.     *)
(***************************************************************************)
MaxRetries == 2          \* the largest retries argument or configuration value tried
MaxSends == 3            \* send calls a run makes at most
DefaultRetries == 3      \* config.get("retries", 3)
NoKey == 0 - 1           \* config.yaml has no "retries" key
\* self.retries = retries or config.get("retries", 3)                (line 23)
RetriesOf(retries, config) ==
    IF retries # 0 THEN retries
    ELSE IF config # NoKey THEN config ELSE DefaultRetries
NewClient(retries, config) ==
    [pc |-> "new", sock |-> FALSE, retries |-> RetriesOf(retries, config),
     tries |-> <<>>, sending |-> 0, calls |-> <<>>]
\* a loop that makes one attempt more
MoreAttemptsOneMore(c) == Len(c.tries) <= c.retries
\* for attempt in range(1, self.retries + 1)                          (line 36)
MoreAttempts(c) == Len(c.tries) < c.retries
\* handlers that catch the timeout only
CaughtTimeoutOnly(exc) == exc = "timeout"
\* except socket.timeout / except socket.error                   (lines 56-61)
Caught(exc) == exc \in {"timeout", "error"}
\* what a send call that met `exc` gives its caller
SendResult(frame, exc, cause) ==
    [frame |-> frame, cause |-> cause,
     raised |-> exc # "none" /\ ~Caught(exc),
     result |-> exc = "none"]
Finish(c, r) ==
    [c EXCEPT !.calls = Append(@, r), !.sending = 0,
              !.pc = IF r.raised THEN "raised" ELSE "connected"]

\* connect(), up to the first attempt
ClConnect ==
    /\ cl.pc = "new"
    /\ cl' = [cl EXCEPT !.pc = IF MoreAttempts(cl) THEN "connecting" ELSE "failed"]
    /\ UNCHANGED <<wire, srv_vars, log_vars>>
\* one socket.create_connection of the loop, and what follows it: the
\* return, the next round after the sleep, or the ConnectionError
ClAttempt(ok) ==
    /\ cl.pc = "connecting"
    /\ LET c == [cl EXCEPT !.tries = Append(@, ok)] IN
       cl' = IF ok THEN [c EXCEPT !.pc = "connected", !.sock = TRUE]
             ELSE IF MoreAttempts(c) THEN c
             ELSE [c EXCEPT !.pc = "failed"]
    /\ wire' = IF ok THEN [wire EXCEPT !.open = TRUE] ELSE wire
    /\ UNCHANGED <<srv_vars, log_vars>>
\* send(), lines 46-50: sendall hands the frame over, or fails
ClSend(exc) ==
    /\ cl.pc = "connected" /\ Len(cl.calls) < MaxSends
    /\ LET frame == Len(cl.calls) + 1 IN
       IF exc = "none"
       THEN /\ cl' = [cl EXCEPT !.pc = "sending", !.sending = frame]
            /\ wire' = [wire EXCEPT !.written = Append(@, frame),
                                    !.out = IF wire.open THEN Append(@, frame) ELSE @]
       ELSE /\ cl' = Finish(cl, SendResult(frame, exc, "write"))
            /\ UNCHANGED wire
    /\ UNCHANGED <<srv_vars, log_vars>>
\* send(), lines 53-61: the one recv, which returns what has arrived (the
\* acknowledgements, or b'' at the end of the stream), times out or fails
ClRecv(exc) ==
    /\ cl.pc = "sending"
    /\ exc = "none" => (wire.acks # <<>> \/ ~wire.open)
    /\ exc = "timeout" => (wire.acks = <<>> /\ wire.open)
    /\ cl' = Finish(cl, SendResult(cl.sending, exc,
                   IF exc # "none" THEN "read"
                   ELSE IF wire.acks # <<>> THEN "ack" ELSE "eof"))
    /\ wire' = IF exc = "none" THEN [wire EXCEPT !.acks = <<>>] ELSE wire
    /\ UNCHANGED <<srv_vars, log_vars>>
\* close()
ClClose ==
    /\ cl.pc = "connected"
    /\ cl' = [cl EXCEPT !.pc = "closed", !.sock = FALSE]
    /\ wire' = [wire EXCEPT !.open = FALSE, !.out = <<>>]
    /\ UNCHANGED <<srv_vars, log_vars>>
\* the server's handler processes the next frame and acknowledges it
WireAck ==
    /\ wire.open /\ wire.out # <<>>
    /\ wire' = [wire EXCEPT !.out = Tail(@), !.acks = Append(@, Head(wire.out))]
    /\ UNCHANGED <<cl, srv_vars, log_vars>>
\* the server closes its end (the handler ended or the server stopped)
WireClose ==
    /\ wire.open /\ cl.pc \in {"connected", "sending"}
    /\ wire' = [wire EXCEPT !.open = FALSE, !.out = <<>>]
    /\ UNCHANGED <<cl, srv_vars, log_vars>>
ClientNext ==
    \/ ClConnect
    \/ \E ok \in BOOLEAN : ClAttempt(ok)
    \/ \E exc \in {"none", "timeout", "error"} : ClSend(exc) \/ ClRecv(exc)
    \/ ClClose
    \/ WireAck
    \/ WireClose
ClientInit ==
    /\ \E retries \in 0..MaxRetries, config \in {NoKey} \cup 0..MaxRetries :
           cl = NewClient(retries, config)
    /\ wire = NoWire
    /\ ListenerOff
    /\ LoggerInit(DefaultConfig, EmptyDisk, {}, 0)
SpecClient == ClientInit /\ [][ClientNext]_vars

\* C11: between start() and stop(), whenever no logger call is in progress,
\* exactly one file object is open for writing, it is the logger's current
\* file and writer, and it is open on the segment at current_file_path; so
\* every rotation that closed a segment has ended with a fresh one open.
Stopped == \E i \in 1..Len(ops) : ops[i] = "stop"
OpenHandles == {h \in DOMAIN hd : ~hd[h].closed}
C11_OneOpenSegment ==
    (~Stopped /\ \A t \in active : t_pc[t] = "idle") =>
        /\ OpenHandles = {lg.current_file}
        /\ lg.current_writer = lg.current_file
        /\ Exists(TheWorld, lg.current_file_path)
        /\ hd[lg.current_file].ino = fs.logdir[lg.current_file_path]
\* two rotations have happened and the logger is between calls
C11_Witness ==
    /\ ~Stopped /\ \A t \in active : t_pc[t] = "idle"
    /\ Len(hd) >= 3
    /\ DOMAIN fs.zips # {}
    /\ OpenHandles = {lg.current_file}

\* C12: on a store that started empty, log_reading(r), flush(), stop() and
\* then read_logs over an interval that contains r's timestamp (with no
\* sensor filter or with r's sensor) yield exactly one row; its sensor and
\* unit are r's, its value read back as a number is r's value and its
\* timestamp read back is r's timestamp.
RoundTrip ==
    /\ StartedEmpty
    /\ ops = <<"log", "flush", "stop", "read">>
    /\ query.done
    /\ InRange(submitted[1].ts.t, query.start, query.end)
    /\ query.sensor_id \in {PyNone, submitted[1].sensor_id}
C12_RoundTrip ==
    RoundTrip =>
        /\ Len(query.rows) = 1
        /\ query.rows[1].sensor_id = submitted[1].sensor_id
        /\ query.rows[1].unit = submitted[1].unit
        /\ Float(query.rows[1].value) = submitted[1].value
        /\ query.rows[1].ts = submitted[1].ts
\* the round trip through the batch and the segment file
C12_Witness ==
    /\ RoundTrip /\ cfg.buffer_size = 2 /\ query.start < query.end
    /\ DOMAIN fs.zips = {}
    /\ Len(query.rows) = 1

\* C13: read_logs(start, end, sensor_id) yields exactly the rows stored in
\* the segment files and in the archives whose timestamp t has
\* start <= t <= end and whose sensor is sensor_id when one is given: each
\* as often as it is stored, and nothing else.
Matches(r) ==
    /\ r.ts.kind = "iso"
    /\ query.start <= r.ts.t /\ r.ts.t <= query.end
    /\ (query.sensor_id # PyNone => r.sensor_id = query.sensor_id)
Range(q) == {q[i] : i \in 1..Len(q)}
C13_QueryIsFilter ==
    query.done =>
        \A r \in Range(StoreRows) \cup Range(query.rows) :
            Count(query.rows, r) = IF Matches(r) THEN Count(StoreRows, r) ELSE 0
\* a query with a sensor filter whose range ends at a stored timestamp, over
\* a segment and an archive, that leaves rows out
C13_Witness ==
    /\ query.done /\ query.sensor_id = "T1" /\ query.start < query.end
    /\ DOMAIN fs.zips # {} /\ Len(SegmentRows) >= 2
    /\ \E i \in 1..Len(query.rows) : query.rows[i].ts.t = query.end
    /\ Len(query.rows) < Len(StoreRows)

\* C14: delete_old_logs removes every archive whose date (the stamp of its
\* name, else the modification time of the file) is older than
\* now - retention_days and keeps, unchanged, every archive that is not
\* older; the segment files, the open segment and the other files of the
\* archive directory are not touched.
SweepStep == last_op' = "delete" /\ ops' # ops
DateOf(p) == IF p[2] # NoStamp THEN p[2] ELSE fs.mtime[p]
C14_RetentionSweep ==
    [][SweepStep =>
        /\ DOMAIN fs'.zips =
              {p \in DOMAIN fs.zips : DateOf(p) >= clock - cfg.retention_days}
        /\ \A p \in DOMAIN fs'.zips : fs'.zips[p] = fs.zips[p]
        /\ fs'.inodes = fs.inodes /\ fs'.logdir = fs.logdir
        /\ fs'.arcdir = fs.arcdir
        /\ lg' = lg /\ hd' = hd]_vars
\* a sweep that removed the archive dated one unit before the threshold and
\* the one dated by its modification time, and kept the archive dated at the
\* threshold and the one dated one unit after it
C14_Witness ==
    /\ last_op = "delete"
    /\ \E p \in swept : p[2] = clock - cfg.retention_days - 1
    /\ \E p \in swept : p[2] = NoStamp
    /\ \E p \in DOMAIN fs.zips : p[2] = clock - cfg.retention_days
    /\ \E p \in DOMAIN fs.zips : p[2] = clock - cfg.retention_days + 1

\* C15: the rotation check that ends every log_reading call, after the
\* flush when the call flushed, starts a rotation exactly when the time since
\* the last rotation is at least rotate_every_hours, or the segment file is
\* at least max_size_mb long, or rotate_after_lines is configured and the
\* segment holds at least that many data rows.
Elapsed == clock - lg.last_rotation_time >= cfg.rotate_every_hours
SizeReached ==
    /\ lg.current_file_path \in DOMAIN fs.logdir
    /\ Len(fs.inodes[fs.logdir[lg.current_file_path]]) >= cfg.max_size_mb
LinesReached ==
    /\ cfg.rotate_after_lines # 0
    /\ lg.current_file_path \in DOMAIN fs.logdir
    /\ Len(DataRows(fs.inodes[fs.logdir[lg.current_file_path]])) >= cfg.rotate_after_lines
RotationChecked(t) == t_pc[t] = "lr_needs" /\ t_pc'[t] # "lr_needs"
C15_RotationTrigger ==
    [][\A t \in Threads :
          RotationChecked(t) =>
              (t_pc'[t] = "st_flush" <=> (Elapsed \/ SizeReached \/ LinesReached))]_vars
\* a rotation started by the size of the segment alone, in a call that flushed
C15_Witness ==
    /\ t_pc[1] = "st_flush" /\ t_stk[1] # <<>> /\ Head(t_stk[1]) = "rot_exists"
    /\ lg.buffer = <<>>
    /\ SizeReached /\ ~Elapsed /\ ~LinesReached

\* C16: a send call whose write or whose one read met a socket error or the
\* timeout returned False: it did not raise, and its frame was handed to the
\* socket at most once (the call made no second write).
Failed(r) == r.cause \in {"write", "read"}
C16_SendFailsQuietly ==
    /\ cl.pc # "raised"
    /\ \A i \in 1..Len(cl.calls) :
          Failed(cl.calls[i]) =>
              /\ ~cl.calls[i].raised /\ cl.calls[i].result = FALSE
              /\ Count(wire.written, cl.calls[i].frame) <= 1
\* a send whose read timed out after the frame was written, and a later
\* send whose write failed
C16_Witness ==
    /\ Len(cl.calls) >= 2
    /\ cl.calls[1].cause = "read" /\ wire.written = <<1>>
    /\ cl.calls[2].cause = "write"
    /\ cl.pc = "connected"

\* C17: connect() makes at most self.retries attempts, makes none after one
\* that succeeded, returns as soon as one succeeds, and raises only when
\* self.retries attempts have been made and all have failed.
C17_ConnectRetries ==
    /\ Len(cl.tries) <= cl.retries
    /\ \A i \in 1..(Len(cl.tries) - 1) : ~cl.tries[i]
    /\ (cl.tries # <<>> /\ cl.tries[Len(cl.tries)]) => cl.pc \notin {"connecting", "failed"}
    /\ cl.pc = "failed" =>
          /\ Len(cl.tries) = cl.retries
          /\ \A i \in 1..Len(cl.tries) : ~cl.tries[i]
    /\ cl.pc = "connecting" => Len(cl.tries) < cl.retries
\* a connect that raised after the default three attempts
C17_Witness ==
    /\ cl.pc = "failed" /\ cl.retries = DefaultRetries
    /\ cl.tries = <<FALSE, FALSE, FALSE>>

\* C18: once stop_server has run, the server thread eventually leaves its
\* accept loop and closes the listening socket.
C18_StopObserved == stop_req ~> (srv_pc = "stopped")

\* C19: the handler of a connection whose peer has closed the stream, or
\* whose server has been stopped, eventually ends and closes the connection.
HandlerRuns(c) == h_pc[c] \notin {"absent", "pending"}
C19_HandlersEnd ==
    \A c \in Conns :
        (HandlerRuns(c) /\ (stop_req \/ peer[c] = "closed")) ~> Closed(c)

\* C20: no handler is ended by an error of a frame: whatever frames a
\* connection carries, its handler ends only at the end of the stream or at
\* the stop of the server.
C20_FrameErrorsContained == \A c \in Conns : h_pc[c] # "closed_err"

\* C21: while the server is not stopped, a connection that has been made is
\* eventually served and the frames it carries are eventually processed,
\* though another connection stays open and idle.
C21_ServedBesideIdle ==
    \A c \in Conns :
        (h_pc[c] = "pending" /\ sent[c] # <<>> /\ ~stop_req)
            ~> (processed[c] # <<>> \/ Closed(c) \/ stop_req)

\* C22: the frames a handler has processed and acknowledged are the first
\* frames of its connection's stream, in the order of the stream, and in
\* every history the readings that came over one connection stand in the
\* order in which that connection carried them.
ConnOf(e) == e.value \div 10
IndexOf(e) == e.value % 10
C22_ArrivalOrder ==
    /\ \A c \in Conns : \A i \in 1..Len(processed[c]) :
          /\ processed[c][i].line = Lines(Decode(sent[c]))[i]
          /\ processed[c][i].ack
    /\ \A s \in DOMAIN data : \A i \in 1..Len(data[s]) : \A j \in (i + 1)..Len(data[s]) :
          ConnOf(data[s][i]) = ConnOf(data[s][j]) => IndexOf(data[s][i]) < IndexOf(data[s][j])
\* one source fed by both connections, their readings interleaved, every
\* frame processed: the full history ends with two readings of one connection
C22_Witness ==
    /\ AllProcessed
    /\ \E s \in DOMAIN data :
          /\ Len(arrivals[s]) = Cardinality(Conns) * ReadingsPerConn
          /\ ConnOf(arrivals[s][1]) # ConnOf(arrivals[s][2])
          /\ Len(data[s]) = max_history_length
          /\ ConnOf(data[s][1]) = ConnOf(data[s][2])

\* C23: get_latest(sensor_id) returns the reading appended last for that
\* source, whatever was appended before it and for other sources, and the
\* absent triple when nothing was ever appended for it.
LastArrival(sensor_id) ==
    IF sensor_id \in DOMAIN arrivals
        THEN <<arrivals[sensor_id][Len(arrivals[sensor_id])]>> ELSE <<>>
C23_LatestIsLastAppended ==
    [][(view' # view /\ view'.op = "latest") =>
          view'.result = LastArrival(view'.sensor_id)]_vars
\* the latest reading of a source that has gone past the cap, read after
\* readings of another source were appended
C23_Witness ==
    /\ view.op = "latest" /\ view.sensor_id = "S1"
    /\ "S2" \in DOMAIN arrivals
    /\ Len(arrivals["S1"]) > max_history_length
    /\ view.result = <<arrivals["S1"][Len(arrivals["S1"])]>>

\* C24: get_avg_last_n_readings(sensor_id, n), n >= 1, returns the sum of
\* the values of the last min(n, history length) readings of the source
\* divided by their number, and is absent when the source has no history.
C24_WindowedAverage ==
    [][(view' # view /\ view'.op = "avg") =>
          LET s == view'.sensor_id IN
          IF s \notin DOMAIN arrivals THEN view'.result = <<>>
          ELSE LET k == Min(view'.n, Len(data[s]))
                   window == LastN(arrivals[s], k)
               IN /\ k >= 1
                  /\ view'.result = <<[sum |-> SumValues(window), len |-> k]>>]_vars
\* an average over a window shorter than the history, and one over a
\* window longer than it
C24_Witness ==
    /\ view.op = "avg" /\ view.result # <<>>
    /\ view.n < max_history_length /\ Len(data[view.sensor_id]) = max_history_length
    /\ view.result[1].len = view.n
    /\ Len(arrivals[view.sensor_id]) > max_history_length

\* C25: on a started logger, when a log_reading call has returned the batch
\* holds fewer than buffer_size rows, and when flush() or stop() has
\* returned it holds none.
CallReturned(op) == last_op = op /\ \A t \in active : t_pc[t] = "idle"
C25_BatchBelowSize ==
    /\ (CallReturned("log") /\ ~Stopped) => Len(lg.buffer) < cfg.buffer_size
    /\ CallReturned("flush") => lg.buffer = <<>>
    /\ CallReturned("stop") => lg.buffer = <<>>
\* a row waits in the batch after a flush() emptied it
C25_Witness ==
    /\ CallReturned("log") /\ ops = <<"log", "flush", "log">>
    /\ cfg.buffer_size = 2 /\ Len(lg.buffer) = 1

\* C26: a flush of a non-empty batch appends the rows of the batch, in batch
\* order, to what the open segment's file object has been given, advances
\* the line counter by the length of the batch, empties the batch and pushes
\* the rows to the file; a flush of an empty batch leaves the logger, the
\* files and the file objects as they are.
Moves(t, from, to) == t_pc[t] = from /\ t_pc'[t] = to
Written(l, f, h) == f.inodes[h[l.current_writer].ino] \o h[l.current_writer].pend
C26_FlushWritesBatch ==
    [][\A t \in Threads :
         /\ (t_pc[t] = "fl_test" /\ t_pc'[t] # "fl_test" /\ lg.buffer = <<>>) =>
                /\ t_pc'[t] = Head(t_stk[t])
                /\ lg' = lg /\ fs' = fs /\ hd' = hd
         /\ Moves(t, "fl_write", "fl_count") =>
                /\ Written(lg', fs', hd') = Written(lg, fs, hd) \o CsvRows(lg.buffer)
                /\ lg' = lg
         /\ Moves(t, "fl_count", "fl_clear") =>
                /\ lg'.line_count = lg.line_count + Len(lg.buffer)
                /\ lg'.buffer = lg.buffer /\ fs' = fs /\ hd' = hd
         /\ Moves(t, "fl_clear", "fl_flush") =>
                /\ lg'.buffer = <<>> /\ lg'.line_count = lg.line_count
                /\ fs' = fs /\ hd' = hd
         /\ (t_pc[t] = "fl_flush" /\ t_pc'[t] = Head(t_stk[t])) =>
                /\ fs'.inodes[hd[lg.current_file].ino] = Written(lg, fs, hd)
                /\ hd'[lg.current_file].pend = <<>>
                /\ lg' = lg]_vars
\* flush() has written a batch of one row where the batch size is two, and
\* flush() was called again on the empty batch
C26_Witness ==
    /\ CallReturned("flush") /\ ops = <<"log", "flush", "flush">>
    /\ cfg.buffer_size = 2 /\ lg.buffer = <<>> /\ lg.line_count = 1
    /\ StartedEmpty
    /\ fs.inodes[hd[lg.current_file].ino] = <<Header, CsvRow(submitted[1])>>

LoggedAfterStop ==
    \E i \in 1..Len(ops) : \E j \in (i + 1)..Len(ops) : ops[i] = "stop" /\ ops[j] = "log"
\* C27: stop() flushes the batch into the segment and closes it, and
\* neither it nor anything after it moves the segment or adds an archive:
\* when stop() has returned the batch is empty, the segment file is in place
\* and no file object is open, and no log_reading call made after a stop()
\* ever opens a segment again.
KeepsArchives ==
    /\ fs'.zips = fs.zips /\ fs'.arcdir = fs.arcdir
    /\ DOMAIN fs'.logdir = DOMAIN fs.logdir
Uncaught == \E t \in active : t_pc[t] = "raised"
C28_RotationFailuresContained ==
    [][/\ ~Stopped' => ~Uncaught'
       /\ \A t \in active :
            /\ Moves(t, "rot_exists", "sta_open")
                  => (~Exists(TheWorld, lg.current_file_path) /\ fs' = fs)
            /\ Moves(t, "rot_exists", "rot_move")
                  => Exists(TheWorld, lg.current_file_path)
            /\ Moves(t, "rot_move", "sta_open") => fs' = fs
            /\ Moves(t, "rot_zip", "sta_open")
                  => /\ fs'.arcdir = fs.arcdir /\ fs'.logdir = fs.logdir
                     /\ fs'.inodes = fs.inodes
                     /\ t_loc[t].dst \in DOMAIN fs.arcdir
            /\ (t_pc[t] = "sta_count" /\ t_pc'[t] # "sta_count")
                  => /\ OpenHandles' = {lg'.current_file}
                     /\ lg'.current_writer = lg'.current_file
                     /\ lg'.current_file_path \in DOMAIN fs'.logdir]_vars
\* the compression failed, the rotated csv is in the archive directory with
\* the first row, and the next log_reading has returned with its row stored
C28_Witness ==
    /\ CallReturned("log") /\ Len(submitted) = 2
    /\ DOMAIN fs.zips = {}
    /\ \E p \in DOMAIN fs.arcdir : Count(fs.inodes[fs.arcdir[p]], CsvRow(submitted[1])) = 1
    /\ Count(SegmentRows, CsvRow(submitted[2])) = 1

\* C29: read_logs is not cut short by bad data: in every segment file and
\* in every member of every readable archive, each row that matches the
\* query is yielded, also when rows above it in the same file carry a
\* timestamp that does not parse and when another archive is no zip file
Examined(lines) ==
    (lines # <<>> /\ Head(lines) = Header) =>
        \A i \in 2..Len(lines) : Matches(lines[i]) => lines[i] \in Range(query.rows)
C29_ScanSurvivesBadData ==
    query.done =>
        /\ \A p \in DOMAIN fs.logdir :
               Examined(DiskContent(TheWorld, p))
        /\ \A p \in DOMAIN fs.zips :
               fs.zips[p] # BadZip =>
                   \A m \in DOMAIN fs.zips[p] : Examined(fs.zips[p][m])
\* a query that yields the row below the bad one, in the segment and in the
\* archive next to the corrupt one, and a row logged since
C29_Witness ==
    /\ query.done /\ query.sensor_id = PyNone
    /\ \E p \in DOMAIN fs.zips : fs.zips[p] = BadZip
    /\ \E p \in DOMAIN fs.zips :
          /\ fs.zips[p] # BadZip /\ fs.zips[p][1][2] = BadTsRow
          /\ Matches(fs.zips[p][1][3])
    /\ \E p \in DOMAIN fs.logdir :
          /\ DiskContent(TheWorld, p)[2] = BadTsRow
          /\ Len(DiskContent(TheWorld, p)) >= 4
          /\ Matches(DiskContent(TheWorld, p)[4])
    /\ Count(query.rows, OldRow) = 2
    /\ CsvRow(submitted[1]) \in Range(query.rows)

\* C30: start() on a file that exists opens it for appending, leaves what
\* it holds in place, writes no header row and sets line_count to the lines
\* of the file minus one; start() on a missing file creates it empty, hands
\* the writer exactly one header row and sets line_count to 0
Segment == fs.inodes[fs.logdir[lg.current_file_path]]
C30_StartAppendsOrCreates ==
    [][\A t \in active :
         /\ Moves(t, "sta_open", "sta_header") =>
              /\ hd'[lg'.current_file].ino = fs'.logdir[SegName(clock)]
              /\ hd'[lg'.current_file].pend = <<>>
              /\ IF Exists(TheWorld, SegName(clock))
                    THEN fs' = fs
                    ELSE /\ Segment' = <<>>
                         /\ DOMAIN fs'.logdir = DOMAIN fs.logdir \cup {SegName(clock)}
         /\ (t_pc[t] = "sta_count" /\ t_pc'[t] \notin {"sta_count", "raised"}) =>
              /\ Count(Written(lg', fs', hd'), Header) = 1
              /\ Head(Written(lg', fs', hd')) = Header
              /\ IF t_loc[t].file_exists
                    THEN /\ hd'[lg'.current_writer].pend = <<>>
                         /\ lg'.line_count = Len(Segment') - 1
                    ELSE /\ hd'[lg'.current_writer].pend = <<Header>>
                         /\ Segment' = <<>>
                         /\ lg'.line_count = 0]_vars
\* the move of a rotation failed twice: start() reopened the segment that was
\* still there, both rows are in it under its one header
C30_Witness ==
    /\ CallReturned("log") /\ Len(submitted) = 2 /\ cfg.rotate_after_lines = 1
    /\ DOMAIN fs.zips = {} /\ DOMAIN fs.arcdir = {}
    /\ lg.current_file_path \in DOMAIN fs.logdir
    /\ Count(Segment, Header) = 1
    /\ Count(Segment, CsvRow(submitted[1])) = 1 /\ Count(Segment, CsvRow(submitted[2])) = 1
    /\ lg.line_count = Len(Segment) - 1

\* C31: when send returns True the server has processed the frame of this
\* call and written the acknowledgement for it, which is among what the one
\* recv of the call read: not the end of the stream, and not only
\* acknowledgements of frames of earlier calls
SendReturns(result) ==
    /\ cl.pc = "sending" /\ Len(cl'.calls) = Len(cl.calls) + 1
    /\ ~cl'.calls[Len(cl'.calls)].raised
    /\ cl'.calls[Len(cl'.calls)].result = result
C31_TrueMeansAcknowledged ==
    [][SendReturns(TRUE) =>
          \E i \in 1..Len(wire.acks) : wire.acks[i] = cl.sending]_vars

\* C32: between the calls of a logger that was started and not stopped,
\* line_count is the number of data rows written to the open segment file;
\* line_count changes only where start() recomputes it and where _flush adds
\* the length of the batch; and a start() that found no file under the
\* segment's name, the old one having been moved away, leaves it at 0
Between == ~Stopped /\ ~Uncaught /\ \A t \in active : t_pc[t] = "idle"
C32_LineCounter ==
    [][/\ Between' => lg'.line_count = Len(DataRows(Written(lg', fs', hd')))
       /\ lg'.line_count # lg.line_count =>
            \E t \in active :
               \/ t_pc[t] = "sta_count"
               \/ /\ t_pc[t] = "fl_count"
                  /\ lg'.line_count = lg.line_count + Len(lg.buffer)
       /\ \A t \in active :
            (t_pc[t] = "sta_count" /\ t_pc'[t] \notin {"sta_count", "raised"}
                /\ ~t_loc[t].file_exists)
               => (lg'.line_count = 0 /\ DataRows(Written(lg', fs', hd')) = <<>>)]_vars
\* a rotation has archived the first segment, and the flush of the next
\* call has counted its row in the new one
C32_Witness ==
    /\ Between /\ last_op = "log" /\ Len(submitted) = 2
    /\ DOMAIN fs.zips # {}
    /\ lg.line_count = 1
    /\ DataRows(Written(lg, fs, hd)) = <<CsvRow(submitted[2])>>

\* C33: get_avg_last_n_readings(sensor_id, n) averages at most n readings:
\* its result is absent or the mean of no more than n values, so for n = 0
\* it is absent
C33_AtMostNReadings ==
    [][(view' # view /\ view'.op = "avg") =>
          (view'.result = <<>> \/ view'.result[1].len <= view'.n)]_vars

====
